---- MODULE Spec2Model ----
(***************************************************************************)
(* Sponsor hand-off of the Entra ID connector customizer.                  *)
(*                                                                         *)
(* The host runtime calls a before handler and, after its own native       *)
(* processing, an after handler for every command.  Both handlers are      *)
(* built by the hook-pattern dispatch engine from the registry             *)
(* customOperations.  The before operation preSetSponsors and the after    *)
(* operation setSponsors share the process-wide Map inputCache, keyed by   *)
(* the invocation's correlation key.  Every `await` of the code is a       *)
(* suspension point: the steps below are the code between two awaits.      *)
(***************************************************************************)
EXTENDS Integers, Sequences, FiniteSets, TLC

VARIABLES inv, inputCache, sponsors, eng, fn

vars == <<inv, inputCache, sponsors, eng, fn>>

(***************************************************************************)
(* JavaScript values.  Every value is a record of the same shape so that   *)
(* values of different JavaScript types can be compared.                   *)
(***************************************************************************)
Undef == [kind |-> "undefined", items |-> <<>>]
Null == [kind |-> "null", items |-> <<>>]
Str(s) == [kind |-> "string", items |-> <<s>>]
Arr(q) == [kind |-> "array", items |-> q]
\* A plain object, as the function from its own property names to their values
Obj(f) == [kind |-> "object", items |-> <<>>, fields |-> f]

\* x == null  (true of null and undefined)
IsNullish(v) == v.kind \in {"undefined", "null"}
\* a ?? b
Coalesce(a, b) == IF IsNullish(a) THEN b ELSE a
\* if (v): the strings of the model are non-empty, arrays are objects
Truthy(v) == v.kind \in {"string", "array", "object"}
\* Array.isArray(value) ? value[0] : value
FirstOf(v) ==
    IF v.kind = "array"
    THEN (IF Len(v.items) > 0 THEN Str(v.items[1]) ELSE Undef)
    ELSE v

\* obj?.[k] on an attribute bag (a function from the names it holds)
Get(bag, k) == IF k \in DOMAIN bag THEN bag[k] ELSE Undef
\* const { a, b, ...rest } = bag
Without(bag, ks) == [k \in (DOMAIN bag) \ ks |-> bag[k]]
\* { ...a, ...b }
Spread(a, b) == [k \in (DOMAIN a) \cup (DOMAIN b) |-> IF k \in DOMAIN b THEN b[k] ELSE a[k]]
EmptyBag == [k \in {} |-> Undef]

IsSponsorsChange(c) == c.attribute = "sponsors" \/ c.attribute = "attributes.sponsors"
NotSponsorsChange(c) == ~IsSponsorsChange(c)

NoChange == [op |-> "none", attribute |-> "none", value |-> Undef]
\* changes?.find(c => c.attribute === 'sponsors' || c.attribute === 'attributes.sponsors')
FindSponsorsChange(changes) ==
    LET hits == SelectSeq(changes, IsSponsorsChange)
    IN  IF hits = <<>> THEN NoChange ELSE Head(hits)

(***************************************************************************)
(* Bounds of the model and the finite universes the inputs are drawn from. *)
(***************************************************************************)
MaxChanges == 2
MaxItems == 2

Invs == {"X", "Y"}
NoKey == "undefined"
Commands == {"create", "update"}

\* context.commandType, as its ':'-separated tokens
CommandType(cmd) == <<"std", "account", cmd>>

\* index.ts: the handler of a command is built for the hook of that name
BeforeHook(cmd) == IF cmd = "create" THEN "beforeStdAccountCreate" ELSE "beforeStdAccountUpdate"
AfterHook(cmd) == IF cmd = "create" THEN "afterStdAccountCreate" ELSE "afterStdAccountUpdate"

MkContext(cmd, invocationId, requestId, id) ==
    [commandType |-> CommandType(cmd), invocationId |-> invocationId,
     requestId |-> requestId, id |-> id]

\* The contexts of the single-invocation runs: with and without a key.
Contexts ==
    {MkContext(cmd, k, NoKey, NoKey) : cmd \in Commands, k \in {NoKey, "k1"}}

\* The sponsors changes a change list may carry, and one unrelated change.
Changes ==
    {[op |-> "Set", attribute |-> "sponsors", value |-> v] :
        v \in {Str("b@x"), Arr(<<"c@x", "b@x">>), Arr(<<>>)}}
    \cup {[op |-> "Remove", attribute |-> "sponsors", value |-> Undef],
          [op |-> "Set", attribute |-> "attributes.sponsors", value |-> Str("b@x")],
          [op |-> "Set", attribute |-> "mail", value |-> Str("m@x")]}

ChangeLists == UNION {[1..n -> Changes] : n \in 0..MaxChanges}

\* An attribute bag: mail always, the other names when they have an entry.
MkBag(s, p, o) ==
    [k \in {"mail"} \cup (IF s = Undef THEN {} ELSE {"sponsors"})
                    \cup (IF p = Undef THEN {} ELSE {"attributes.sponsors"})
                    \cup (IF o = Undef THEN {} ELSE {"objectId"}) |->
        CASE k = "mail" -> Str("m@x")
          [] k = "sponsors" -> s
          [] k = "attributes.sponsors" -> p
          [] OTHER -> o]

Bags ==
    {MkBag(s, p, o) : s \in {Undef, Null, Str("b@x"), Arr(<<"b@x", "c@x">>)},
                      p \in {Undef, Str("a@x")},
                      o \in {Undef, Str("u3")}}

PrimaryDatas == {EmptyBag, [k \in {"sponsors"} |-> Str("a@x")]}

\* A before-handler input.  input.key?.simple?.id is the field keyId.  An
\* absent change list behaves on every path of the code as the empty one.
MkInput(identity, keyId, attributes, primaryData, changes) ==
    [identity |-> identity, keyId |-> keyId, attributes |-> attributes,
     primaryData |-> primaryData, changes |-> changes]

Inputs ==
    {MkInput(i, k, b, p, c) : i \in {Undef, Str("u1")}, k \in {Undef, Str("u2")},
                              b \in Bags, p \in PrimaryDatas, c \in ChangeLists}

NoInput == MkInput(Undef, Undef, EmptyBag, EmptyBag, <<>>)

\* An output element: identity, whether it has an attribute bag, and the
\* attributes objectId and userType (Guest or not) of that bag.
Items ==
    {[identity |-> i, hasAttrs |-> FALSE, objectId |-> Undef, guest |-> FALSE] :
        i \in {Undef, Str("u1")}}
    \cup {[identity |-> i, hasAttrs |-> TRUE, objectId |-> Undef, guest |-> g] :
        i \in {Undef, Str("u1")}, g \in BOOLEAN}

\* The outputs of the host: a single object or a list of elements.
Outputs ==
    {[isArray |-> FALSE, items |-> <<it>>] : it \in Items}
    \cup {[isArray |-> TRUE, items |-> q] : q \in UNION {[1..n -> Items] : n \in 1..MaxItems}}

\* The sponsors the downstream holds for each user before any command.
Users == {"u1", "u2", "u3"}
InitialSponsors == [u \in Users |-> IF u = "u1" THEN {"a@x", "c@x"} ELSE {}]

(***************************************************************************)
(* operations/setSponsors.ts: the per-invocation cache.                    *)
(***************************************************************************)
cacheKey_idFirst(context) ==
    IF context.id # NoKey THEN context.id
    ELSE IF context.requestId # NoKey THEN context.requestId
    ELSE context.invocationId
\* invocationId ?? requestId ?? id  (NoKey stands for an absent field)
cacheKey(context) ==
    IF context.invocationId # NoKey THEN context.invocationId
    ELSE IF context.requestId # NoKey THEN context.requestId
    ELSE context.id

\* context.commandType?.includes('create') ?? false
isCreateCommand(context) ==
    \E n \in 1..Len(context.commandType) : context.commandType[n] = "create"

NoPending == [present |-> FALSE, op |-> "none", upn |-> Undef]
\* A CachedInput.  The field by is not in the code: it names the invocation
\* whose before phase wrote the record.
MkRecord(by, userId, identity, keyId, pendingSponsor, setUpn) ==
    [by |-> by, userId |-> userId, identity |-> identity, key |-> keyId,
     pendingSponsor |-> pendingSponsor, setUpn |-> setUpn]
NoRecord == MkRecord("none", Undef, Undef, Undef, NoPending, Undef)

\* inputCache.set(key, record)
CacheSet(cache, key, record) ==
    [k \in (DOMAIN cache) \cup {key} |-> IF k = key THEN record ELSE cache[k]]
\* inputCache.get(key): the record and whether there was one
CacheGet_anyKey(cache, key) ==
    IF DOMAIN cache # {} THEN [found |-> TRUE, rec |-> cache[CHOOSE k \in DOMAIN cache : TRUE]]
    ELSE [found |-> FALSE, rec |-> NoRecord]
CacheGet(cache, key) ==
    IF key \in DOMAIN cache THEN [found |-> TRUE, rec |-> cache[key]]
    ELSE [found |-> FALSE, rec |-> NoRecord]
\* inputCache.delete(key)
CacheDelete_none(cache, key) == cache
CacheDelete(cache, key) == [k \in (DOMAIN cache) \ {key} |-> cache[k]]

NotFound == [found |-> FALSE, rec |-> NoRecord]
\* getCachedInput(context): the value returned and the cache it leaves
getCachedInput_peek(cache, context) ==
    IF cacheKey(context) = NoKey THEN [val |-> NotFound, cache |-> cache]
    ELSE [val |-> CacheGet(cache, cacheKey(context)), cache |-> cache]
getCachedInput(cache, context) ==
    LET key == cacheKey(context)
    IN  IF key = NoKey THEN [val |-> NotFound, cache |-> cache]
        ELSE [val |-> CacheGet(cache, key), cache |-> CacheDelete(cache, key)]

(***************************************************************************)
(* operations/setSponsors.ts: preSetSponsors up to its downstream call.    *)
(***************************************************************************)
SponsorsChange(input) == FindSponsorsChange(input.changes)
SponsorsValue(input) ==
    Coalesce(Coalesce(Get(input.attributes, "sponsors"),
                      Get(input.attributes, "attributes.sponsors")),
             SponsorsChange(input).value)

\* value === undefined && !change
NoSponsorRequest(input) ==
    SponsorsValue(input).kind = "undefined" /\ SponsorsChange(input) = NoChange

\* change?.op ?? AttributeChangeOp.Set
SponsorsOp(input) ==
    IF SponsorsChange(input) = NoChange THEN "Set" ELSE SponsorsChange(input).op

SponsorUpn(input) == FirstOf(SponsorsValue(input))

\* input.identity ?? input.key?.simple?.id ?? input.attributes?.objectId
InputUserId(input) ==
    Coalesce(Coalesce(input.identity, input.keyId), Get(input.attributes, "objectId"))

\* The record of the create branch and the record of the other branch.
PendingRecord_wholeValue(by, input) ==
    MkRecord(by, InputUserId(input), input.identity, input.keyId,
             [present |-> TRUE, op |-> SponsorsOp(input), upn |-> SponsorsValue(input)],
             Undef)
PendingRecord(by, input) ==
    MkRecord(by, InputUserId(input), input.identity, input.keyId,
             [present |-> TRUE, op |-> SponsorsOp(input), upn |-> SponsorUpn(input)],
             Undef)
HandoffRecord_wholeValue(by, input) ==
    MkRecord(by, InputUserId(input), input.identity, input.keyId, NoPending,
             IF SponsorsOp(input) # "Remove" THEN SponsorsValue(input) ELSE Undef)
HandoffRecord(by, input) ==
    MkRecord(by, InputUserId(input), input.identity, input.keyId, NoPending,
             IF SponsorsOp(input) # "Remove" THEN SponsorUpn(input) ELSE Undef)

NoCall == [kind |-> "none", user |-> "none", upn |-> "none"]
\* The downstream call of the non-create branch, NoCall when there is none.
BeforeCallOf(input) ==
    IF ~Truthy(InputUserId(input)) THEN NoCall
    ELSE IF SponsorsOp(input) = "Remove"
    THEN [kind |-> "clear", user |-> InputUserId(input).items[1], upn |-> "none"]
    ELSE IF Truthy(SponsorUpn(input))
    THEN [kind |-> "set", user |-> InputUserId(input).items[1],
          upn |-> SponsorUpn(input).items[1]]
    ELSE NoCall

\* stripSponsorsFromInput(input, logger)
stripSponsorsFromInput_changesOnly(input) ==
    [input EXCEPT !.changes = SelectSeq(input.changes, NotSponsorsChange)]
stripSponsorsFromInput(input) ==
    LET r1 == IF ~IsNullish(Get(input.attributes, "sponsors"))
                 \/ ~IsNullish(Get(input.attributes, "attributes.sponsors"))
              THEN Spread(input, [attributes |->
                       Without(input.attributes, {"sponsors", "attributes.sponsors"})])
              ELSE input
        filtered == SelectSeq(r1.changes, NotSponsorsChange)
    IN  IF Len(r1.changes) > 0 /\ Len(filtered) # Len(r1.changes)
        THEN Spread(r1, [changes |-> filtered])
        ELSE r1

(***************************************************************************)
(* customOperations.ts: the registry.  A key '<hook>.<attribute>' is kept  *)
(* as the two parts the engine splits it into at its first '.'.            *)
(***************************************************************************)
MkEntry(hookPattern, attrPattern, ops) ==
    [hookPattern |-> hookPattern, attrPattern |-> attrPattern, ops |-> ops]

customOperations ==
    << MkEntry("beforeStdAccountCreate", "sponsors", <<"preSetSponsors">>),
       MkEntry("afterStdAccountCreate", "sponsors", <<"setSponsors">>),
       MkEntry("beforeStdAccountUpdate", "sponsors", <<"preSetSponsors">>),
       MkEntry("afterStdAccountUpdate", "sponsors", <<"setSponsors">>),
       MkEntry("afterStdAccountCreate", "invitedUserDisplayName", <<"setGuestGalVisibility">>),
       MkEntry("afterStdAccountList", "*", <<"getSponsors">>),
       MkEntry("afterStdAccountRead", "*", <<"getSponsors">>),
       MkEntry("afterStdEntitlementList", "application", <<"getApplication">>) >>

(***************************************************************************)
(* entraid-client.ts: the hook-pattern dispatch engine.                    *)
(***************************************************************************)
matchesPattern_any(hook, pattern) == TRUE
\* The patterns of the registry hold no embedded '*': the regular
\* expression ^pattern$ then accepts the hook equal to the pattern only.
matchesPattern(hook, pattern) == pattern = "*" \/ pattern = hook

\* attrPattern.startsWith('attributes.') and the slice after the prefix
HasAttributesPrefix(name) == name = "attributes.sponsors"
AttrName(attrPattern) ==
    IF HasAttributesPrefix(attrPattern) THEN "sponsors" ELSE attrPattern

IsUnconditional_nullOnly(attrPattern) == attrPattern = "null"
IsUnconditional(attrPattern) == attrPattern = "*" \/ attrPattern = "null"

\* hasAttribute of runBeforeOperations
hasAttribute(input, attrPattern) ==
    \/ ~IsNullish(Get(input.attributes, AttrName(attrPattern)))
    \/ ~IsNullish(Get(input.attributes, attrPattern))
    \/ ~IsNullish(Get(input.primaryData, AttrName(attrPattern)))
    \/ \E n \in 1..Len(input.changes) :
          \/ input.changes[n].attribute = AttrName(attrPattern)
          \/ input.changes[n].attribute = attrPattern

\* The first entry from e on of the registry operations whose operations the
\* before handler for hook runs on the running input, 0 when there is none.
NextEntryOf_firstMatch(operations, hook, input, e) ==
    LET matching == {x \in 1..Len(operations) :
                        /\ matchesPattern(hook, operations[x].hookPattern)
                        /\ \/ IsUnconditional(operations[x].attrPattern)
                           \/ hasAttribute(input, operations[x].attrPattern)}
    IN  IF e = 1 /\ matching # {} THEN CHOOSE x \in matching : \A y \in matching : x <= y
        ELSE 0
RECURSIVE NextEntryOf(_, _, _, _)
NextEntryOf(operations, hook, input, e) ==
    IF e > Len(operations) THEN 0
    ELSE IF /\ matchesPattern(hook, operations[e].hookPattern)
            /\ \/ IsUnconditional(operations[e].attrPattern)
               \/ hasAttribute(input, operations[e].attrPattern)
    THEN e
    ELSE NextEntryOf(operations, hook, input, e + 1)

\* The same for the handler built on the registry customOperations.
NextBeforeEntry(hook, input, e) == NextEntryOf(customOperations, hook, input, e)

SkipsItem_never(entry, item) == FALSE
\* Whether the after handler skips an element for an entry: a specific
\* attribute and an element that has no attribute bag.
SkipsItem(entry, item) ==
    ~IsUnconditional(entry.attrPattern) /\ ~item.hasAttrs

\* The first (entry, element) from (e, it) on of the registry operations for
\* which the after handler for hook runs operations, e = 0 when there is
\* none.  bags[n] tells whether element n has an attribute bag.
RECURSIVE NextItemOf(_, _, _, _, _)
NextItemOf(operations, hook, bags, e, it) ==
    IF e > Len(operations) THEN [e |-> 0, it |-> 0]
    ELSE IF ~matchesPattern(hook, operations[e].hookPattern) \/ it > Len(bags)
    THEN NextItemOf(operations, hook, bags, e + 1, 1)
    ELSE IF SkipsItem(operations[e], [hasAttrs |-> bags[it]])
    THEN NextItemOf(operations, hook, bags, e, it + 1)
    ELSE [e |-> e, it |-> it]

\* The same for the handler built on the registry customOperations.
NextAfterItem(hook, items, e, it) ==
    NextItemOf(customOperations, hook, [n \in 1..Len(items) |-> items[n].hasAttrs], e, it)

(***************************************************************************)
(* The state of one invocation: where its handler is suspended (pc), the   *)
(* handler's locals, and what the invocation did (calls to the downstream, *)
(* the record its before phase put, what getCachedInput returned to it).   *)
(***************************************************************************)
IdleInv ==
    [pc |-> "idle", cmd |-> "none", context |-> MkContext("none", NoKey, NoKey, NoKey),
     orig |-> NoInput, input |-> NoInput, e |-> 0, o |-> 0, it |-> 0,
     output |-> [isArray |-> FALSE, items |-> <<>>], call |-> NoCall,
     calls |-> <<>>, put |-> NotFound, obs |-> <<>>, ret |-> Undef]

\* A handler of the engine that the host has not called.  heap holds the
\* objects of the call by reference, items and result the references the
\* host's list and the handler's result list hold.
IdleRun ==
    [pc |-> "idle", runner |-> "none", hookName |-> "none", operations |-> <<>>,
     payload |-> NoInput, input |-> NoInput, inputIsPayload |-> TRUE,
     isArray |-> FALSE, heap |-> <<>>, items |-> <<>>, result |-> <<>>, aliased |-> TRUE,
     frozen |-> "none", currentItem |-> EmptyBag, mutated |-> FALSE, fetched |-> Undef,
     failed |-> FALSE,
     e |-> 0, o |-> 0, i |-> 0, inflight |-> {}, trace |-> <<>>,
     ret |-> [list |-> FALSE, refs |-> <<>>]]

\* No helper function has been applied.
NoApply == [name |-> "none", args |-> <<>>, result |-> FALSE]

Init ==
    /\ fn = NoApply
    /\ inv = [i \in Invs |-> IdleInv]
    /\ inputCache = [k \in {} |-> NoRecord]
    /\ sponsors = InitialSponsors
    /\ eng = IdleRun

OpName(r) == customOperations[r.e].ops[r.o]

\* The host calls the before handler, which awaits readConfig().
BeforeCall(i, contexts, inputs) ==
    /\ inv[i].pc = "idle"
    /\ \E context \in contexts, input \in inputs :
          inv' = [inv EXCEPT ![i] = [@ EXCEPT !.pc = "b_cfg",
                                              !.cmd = context.commandType[3],
                                              !.context = context,
                                              !.orig = input, !.input = input]]
    /\ UNCHANGED <<inputCache, sponsors>>
    /\ UNCHANGED <<eng, fn>>

\* The before handler after an operation returned functionInput (or at its
\* start): the next operation is called and awaits readConfig(), or the
\* handler returns the running input.
BeforeResume(r, input) ==
    LET e == IF r.e > 0 /\ r.o < Len(customOperations[r.e].ops) THEN r.e
             ELSE NextBeforeEntry(BeforeHook(r.cmd), input, r.e + 1)
        o == IF e = r.e THEN r.o + 1 ELSE 1
    IN  IF e = 0
        THEN [r EXCEPT !.pc = "b_ret", !.input = input, !.e = 0, !.o = 0, !.call = NoCall]
        ELSE [r EXCEPT !.pc = "b_op", !.input = input, !.e = e, !.o = o, !.call = NoCall]

\* input = { ...input, ...functionInput } when functionInput is truthy
MergeInput(input, functionInput) == Spread(input, functionInput)

BeforeDispatch(i) ==
    /\ inv[i].pc = "b_cfg"
    /\ inv' = [inv EXCEPT ![i] = BeforeResume(@, @.input)]
    /\ UNCHANGED <<inputCache, sponsors>>
    /\ UNCHANGED <<eng, fn>>

(***************************************************************************)
(* entraid-client.ts: the downstream client.  A call either completes or   *)
(* throws; setSponsorForUser and clearSponsorsForUser log and rethrow.     *)
(***************************************************************************)
Outcomes == {"ok", "error"}

\* What the downstream may answer to a call.  Adding a sponsor reference the
\* user already has may be reported as a collision ("exists"); the request
\* then fails like any other and the client rethrows.
OutcomesOf(s, call) ==
    Outcomes \cup (IF call.kind = "set" /\ call.upn \in s[call.user] THEN {"exists"} ELSE {})

\* The sponsors the downstream may hold after a call with that outcome.  A
\* failed clear leaves a sponsor behind unless there was none to remove.
DownstreamAfter(s, call, outcome) ==
    IF call.kind = "set"
    THEN {IF outcome = "ok" THEN [s EXCEPT ![call.user] = @ \cup {call.upn}] ELSE s}
    ELSE IF call.kind = "clear"
    THEN IF outcome = "ok" THEN {[s EXCEPT ![call.user] = {}]}
         ELSE {[s EXCEPT ![call.user] = rest] :
                  rest \in {q \in SUBSET s[call.user] : q # {} \/ s[call.user] = {}}}
    ELSE {s}

Logged(call, phase, outcome) ==
    [kind |-> call.kind, user |-> call.user, upn |-> call.upn,
     phase |-> phase, outcome |-> outcome]

\* preSetSponsors, from its start to its return or to its downstream call.
preSetSponsors(i) ==
    /\ inv[i].pc = "b_op"
    /\ OpName(inv[i]) = "preSetSponsors"
    /\ LET r == inv[i]
           input == r.input
           key == cacheKey(r.context)
           stripped == MergeInput(input, stripSponsorsFromInput(input))
       IN  IF NoSponsorRequest(input)
           THEN /\ inv' = [inv EXCEPT ![i] = BeforeResume(r, MergeInput(input, input))]
                /\ UNCHANGED inputCache
           ELSE IF isCreateCommand(r.context)
           THEN IF key # NoKey
                THEN /\ inputCache' = CacheSet(inputCache, key, PendingRecord(i, input))
                     /\ inv' = [inv EXCEPT ![i] =
                            BeforeResume([r EXCEPT !.put = [found |-> TRUE,
                                                            rec |-> PendingRecord(i, input)]],
                                         stripped)]
                ELSE /\ inv' = [inv EXCEPT ![i] = BeforeResume(r, stripped)]
                     /\ UNCHANGED inputCache
           ELSE LET puts == key # NoKey /\ Truthy(InputUserId(input))
                    r2 == IF puts
                          THEN [r EXCEPT !.put = [found |-> TRUE,
                                                  rec |-> HandoffRecord(i, input)]]
                          ELSE r
                IN  /\ inputCache' = IF puts
                                     THEN CacheSet(inputCache, key, HandoffRecord(i, input))
                                     ELSE inputCache
                    /\ inv' = [inv EXCEPT ![i] =
                           IF BeforeCallOf(input) = NoCall
                           THEN BeforeResume(r2, stripped)
                           ELSE [r2 EXCEPT !.pc = "b_graph", !.call = BeforeCallOf(input)]]
    /\ UNCHANGED sponsors
    /\ UNCHANGED <<eng, fn>>

\* The error of the downstream call leaves preSetSponsors and the handler.
BeforeThrow_swallowed(r) ==
    BeforeResume(r, MergeInput(r.input, stripSponsorsFromInput(r.input)))
BeforeThrow(r) == [r EXCEPT !.pc = "b_err", !.call = NoCall]

preSetSponsorsReply_rollback(i) ==
    /\ inv[i].pc = "b_graph"
    /\ \E outcome \in OutcomesOf(sponsors, inv[i].call) :
          \E s \in DownstreamAfter(sponsors, inv[i].call, outcome) :
             LET r == [inv[i] EXCEPT !.calls = Append(@, Logged(inv[i].call, "before", outcome))]
             IN  /\ sponsors' = s
                 /\ inputCache' = IF outcome = "ok" THEN inputCache
                                   ELSE CacheDelete(inputCache, cacheKey(r.context))
                 /\ inv' = [inv EXCEPT ![i] =
                        IF outcome = "ok"
                        THEN BeforeResume(r, MergeInput(r.input, stripSponsorsFromInput(r.input)))
                        ELSE BeforeThrow(r)]
    /\ UNCHANGED <<eng, fn>>
\* The downstream call of preSetSponsors completes or throws.
preSetSponsorsReply(i) ==
    /\ inv[i].pc = "b_graph"
    /\ \E outcome \in OutcomesOf(sponsors, inv[i].call) :
          \E s \in DownstreamAfter(sponsors, inv[i].call, outcome) :
             LET r == [inv[i] EXCEPT !.calls = Append(@, Logged(inv[i].call, "before", outcome))]
             IN  /\ sponsors' = s
                 /\ inv' = [inv EXCEPT ![i] =
                        IF outcome = "ok"
                        THEN BeforeResume(r, MergeInput(r.input, stripSponsorsFromInput(r.input)))
                        ELSE BeforeThrow(r)]
    /\ UNCHANGED inputCache
    /\ UNCHANGED <<eng, fn>>

\* The host takes the input the before handler returned, processes the
\* command natively and calls the after handler, which awaits readConfig().
HostNative(i, outputs) ==
    /\ inv[i].pc = "b_ret"
    /\ \E output \in outputs :
          inv' = [inv EXCEPT ![i] = [@ EXCEPT !.pc = "a_cfg", !.orig = NoInput,
                                              !.input = NoInput, !.output = output]]
    /\ UNCHANGED <<inputCache, sponsors>>
    /\ UNCHANGED <<eng, fn>>

\* The after handler after an operation returned undefined (or at its
\* start): functionOutput is falsy, so the element is left as it is; the
\* next operation is called, or the handler returns.
AfterResume(r) ==
    LET sameItem == r.e > 0 /\ r.o < Len(customOperations[r.e].ops)
        nxt == IF r.e = 0 THEN NextAfterItem(AfterHook(r.cmd), r.output.items, 1, 1)
               ELSE NextAfterItem(AfterHook(r.cmd), r.output.items, r.e, r.it + 1)
    IN  IF sameItem THEN [r EXCEPT !.pc = "a_op", !.o = r.o + 1, !.call = NoCall]
        ELSE IF nxt.e = 0
        THEN [r EXCEPT !.pc = "a_ret", !.e = 0, !.o = 0, !.it = 0, !.call = NoCall]
        ELSE [r EXCEPT !.pc = "a_op", !.e = nxt.e, !.it = nxt.it, !.o = 1, !.call = NoCall]

AfterDispatch(i) ==
    /\ inv[i].pc = "a_cfg"
    /\ inv' = [inv EXCEPT ![i] = AfterResume(@)]
    /\ UNCHANGED <<inputCache, sponsors>>
    /\ UNCHANGED <<eng, fn>>

\* let userId = output.identity; if (!userId && cached?.userId) userId = cached.userId
AfterUserId_cachedFirst(item, cached) ==
    IF Truthy(cached.userId) THEN cached.userId ELSE item.identity
AfterUserId(item, cached) ==
    IF ~Truthy(item.identity) /\ Truthy(cached.userId) THEN cached.userId ELSE item.identity

\* The deferred sponsor change setSponsors applies, NoCall when none.
AfterCallOf(userId, cached) ==
    IF ~Truthy(userId) \/ ~cached.pendingSponsor.present THEN NoCall
    ELSE IF cached.pendingSponsor.op = "Remove"
    THEN [kind |-> "clear", user |-> userId.items[1], upn |-> "none"]
    ELSE IF Truthy(cached.pendingSponsor.upn)
    THEN [kind |-> "set", user |-> userId.items[1], upn |-> cached.pendingSponsor.upn.items[1]]
    ELSE NoCall

setSponsors_resolveFirst(i) ==
    /\ inv[i].pc = "a_op"
    /\ OpName(inv[i]) = "setSponsors"
    /\ LET r == inv[i]
           item == r.output.items[r.it]
           seen == getCachedInput_peek(inputCache, r.context)
           got == IF Truthy(AfterUserId(item, seen.val.rec))
                  THEN getCachedInput(inputCache, r.context) ELSE seen
           cached == got.val.rec
           userId == AfterUserId(item, cached)
           call == AfterCallOf(userId, cached)
           r2 == [r EXCEPT !.obs = Append(@, got.val), !.ret = Undef]
       IN  /\ inputCache' = got.cache
           /\ inv' = [inv EXCEPT ![i] =
                  IF call = NoCall THEN AfterResume(r2)
                  ELSE [r2 EXCEPT !.pc = "a_graph", !.call = call]]
    /\ UNCHANGED sponsors
    /\ UNCHANGED <<eng, fn>>
\* setSponsors, from its start to its return or to its downstream call.
setSponsors(i) ==
    /\ inv[i].pc = "a_op"
    /\ OpName(inv[i]) = "setSponsors"
    /\ LET r == inv[i]
           item == r.output.items[r.it]
           got == getCachedInput(inputCache, r.context)
           cached == got.val.rec
           userId == AfterUserId(item, cached)
           call == AfterCallOf(userId, cached)
           r2 == [r EXCEPT !.obs = Append(@, got.val), !.ret = Undef]
       IN  /\ inputCache' = got.cache
           /\ inv' = [inv EXCEPT ![i] =
                  IF call = NoCall THEN AfterResume(r2)
                  ELSE [r2 EXCEPT !.pc = "a_graph", !.call = call]]
    /\ UNCHANGED sponsors
    /\ UNCHANGED <<eng, fn>>

\* The downstream call of setSponsors completes (setSponsors then returns
\* undefined) or throws (the error leaves setSponsors and the handler).
setSponsorsReply(i) ==
    /\ inv[i].pc = "a_graph"
    /\ \E outcome \in OutcomesOf(sponsors, inv[i].call) :
          \E s \in DownstreamAfter(sponsors, inv[i].call, outcome) :
             LET r == [inv[i] EXCEPT !.calls = Append(@, Logged(inv[i].call, "after", outcome))]
             IN  /\ sponsors' = s
                 /\ inv' = [inv EXCEPT ![i] =
                        IF outcome = "ok" THEN AfterResume(r)
                        ELSE [r EXCEPT !.pc = "a_err", !.call = NoCall]]
    /\ UNCHANGED inputCache
    /\ UNCHANGED <<eng, fn>>

\* resolveUserIdFromOutput(output), over the fields an element has here
resolveUserIdFromOutput(item) ==
    Coalesce(IF item.hasAttrs THEN item.objectId ELSE Undef, item.identity)

\* setGuestGalVisibility, from its start to its return or to its patch call.
setGuestGalVisibility(i) ==
    /\ inv[i].pc = "a_op"
    /\ OpName(inv[i]) = "setGuestGalVisibility"
    /\ LET r == inv[i]
           item == r.output.items[r.it]
           userId == resolveUserIdFromOutput(item)
       IN  inv' = [inv EXCEPT ![i] =
               IF ~Truthy(userId) \/ ~(item.hasAttrs /\ item.guest) THEN AfterResume(r)
               ELSE [r EXCEPT !.pc = "a_gal",
                              !.call = [kind |-> "gal", user |-> userId.items[1],
                                        upn |-> "none"]]]
    /\ UNCHANGED <<inputCache, sponsors>>
    /\ UNCHANGED <<eng, fn>>

setGuestGalVisibilityReply_raises(i) ==
    /\ inv[i].pc = "a_gal"
    /\ \E outcome \in Outcomes :
          LET r == [inv[i] EXCEPT !.calls = Append(@, Logged(inv[i].call, "after", outcome))]
          IN  inv' = [inv EXCEPT ![i] =
                  IF outcome = "ok" THEN AfterResume(r)
                  ELSE [r EXCEPT !.pc = "a_err", !.call = NoCall]]
    /\ UNCHANGED <<inputCache, sponsors>>
    /\ UNCHANGED <<eng, fn>>
\* The patch call completes or throws; the operation catches the error.
setGuestGalVisibilityReply(i) ==
    /\ inv[i].pc = "a_gal"
    /\ \E outcome \in Outcomes :
          inv' = [inv EXCEPT ![i] =
              AfterResume([@ EXCEPT !.calls = Append(@, Logged(inv[i].call, "after", outcome))])]
    /\ UNCHANGED <<inputCache, sponsors>>
    /\ UNCHANGED <<eng, fn>>

(***************************************************************************)
(* One invocation, over every input, context and output.                   *)
(***************************************************************************)
Next ==
    \/ BeforeCall("X", Contexts, Inputs)
    \/ BeforeDispatch("X")
    \/ preSetSponsors("X")
    \/ preSetSponsorsReply("X")
    \/ HostNative("X", Outputs)
    \/ AfterDispatch("X")
    \/ setSponsors("X")
    \/ setSponsorsReply("X")
    \/ setGuestGalVisibility("X")
    \/ setGuestGalVisibilityReply("X")

Spec == Init /\ [][Next]_vars

(***************************************************************************)
(* Two invocations X and Y whose handlers interleave at their suspension   *)
(* points on the shared cache.  X has no key or k1, Y has k1 or k2.        *)
(***************************************************************************)
ConcContexts(i) ==
    {MkContext(cmd, k, NoKey, NoKey) :
        cmd \in Commands, k \in (IF i = "X" THEN {NoKey, "k1"} ELSE {"k1", "k2"})}

ConcInputs ==
    {MkInput(Str("u1"), Undef, MkBag(s, Undef, Undef), EmptyBag, c) :
        s \in {Undef, Str("b@x")},
        c \in {<<>>, <<[op |-> "Set", attribute |-> "sponsors", value |-> Str("b@x")]>>,
               <<[op |-> "Remove", attribute |-> "sponsors", value |-> Undef]>>}}

ConcOutputs ==
    {[isArray |-> FALSE, items |-> <<it>>] : it \in Items}

NextConc ==
    \E i \in Invs :
        \/ BeforeCall(i, ConcContexts(i), ConcInputs)
        \/ BeforeDispatch(i)
        \/ preSetSponsors(i)
        \/ preSetSponsorsReply(i)
        \/ HostNative(i, ConcOutputs)
        \/ AfterDispatch(i)
        \/ setSponsors(i)
        \/ setSponsorsReply(i)
        \/ setGuestGalVisibility(i)
        \/ setGuestGalVisibilityReply(i)

SpecConc == Init /\ [][NextConc]_vars

(***************************************************************************)
(* Two invocations over the identifiers of the context: X carries any      *)
(* subset of invocationId, requestId and id, Y a requestId and an id.      *)
(***************************************************************************)
KeyContexts(i) ==
    IF i = "X"
    THEN {MkContext(cmd, a, b, c) :
            cmd \in Commands, a \in {NoKey, "k1"}, b \in {NoKey, "k2"}, c \in {NoKey, "k3"}}
    ELSE {MkContext("update", NoKey, "k2", "k3")}

NextKeys ==
    \E i \in Invs :
        \/ BeforeCall(i, KeyContexts(i), ConcInputs)
        \/ BeforeDispatch(i)
        \/ preSetSponsors(i)
        \/ preSetSponsorsReply(i)
        \/ HostNative(i, ConcOutputs)
        \/ AfterDispatch(i)
        \/ setSponsors(i)
        \/ setSponsorsReply(i)
        \/ setGuestGalVisibility(i)
        \/ setGuestGalVisibilityReply(i)

SpecKeys == Init /\ [][NextKeys]_vars

(***************************************************************************)
(* entraid-client.ts: the dispatch engine on any registry.  A run is one   *)
(* call of a handler built by runBeforeOperations(hookName, operations) or *)
(* runAfterOperations(hookName, operations); the registry holds stand-in   *)
(* operations, one for each kind of return value, and getSponsors.         *)
(***************************************************************************)
MaxEntries == 2
MaxOps == 2

\* The hook name a handler is built for and another hook name.
RunHook(runner) == IF runner = "before" THEN "beforeStdAccountUpdate" ELSE "afterStdAccountRead"
OtherHook(runner) == IF runner = "before" THEN "beforeStdAccountCreate" ELSE "afterStdAccountList"

\* A registry key, as its parts between the '.'s.  The key 'attributes.sponsors'
\* is the legacy spelling of the key 'sponsors'.
LegacyKey == <<"attributes", "sponsors">>
RunRawKeys(runner) ==
    {<<"*", "*">>, <<RunHook(runner), "sponsors">>, <<OtherHook(runner), "*">>, LegacyKey}
    \cup (IF runner = "before" THEN {<<"null">>, <<"*", "attributes", "sponsors">>} ELSE {})

\* pattern.substring(firstDotIdx + 1): the parts after the first, with their '.'s
AfterFirstDot(parts) ==
    IF Len(parts) = 2 THEN parts[2]
    ELSE IF Tail(parts) = <<"attributes", "sponsors">> THEN "attributes.sponsors"
    ELSE "other"

\* The hook pattern and the attribute pattern of a key: the key is split at
\* its first '.', and a key without '.' is an attribute pattern for all hooks.
SplitKey(parts) ==
    IF Len(parts) = 1 THEN <<"*", parts[1]>>
    ELSE <<parts[1], AfterFirstDot(parts)>>

\* The registry keys of the runs, split.
RunKeys(runner) == {SplitKey(k) : k \in RunRawKeys(runner)}

\* The stand-in operations: keep returns undefined, raise throws, and the
\* others return a value the engine merges.
BeforeOps == {"keep", "strip", "tag", "raise"}
AfterOps == {"keep", "value", "patch", "raise"}

\* An entry's value: an ordered list of operations, each listed once.
OpLists(ops) ==
    {q \in UNION {[1..n -> ops] : n \in 1..MaxOps} :
        \A a, b \in DOMAIN q : a # b => q[a] # q[b]}

RunEntries(runner) ==
    {MkEntry(k[1], k[2], q) :
        k \in RunKeys(runner),
        q \in IF runner = "before" THEN OpLists(BeforeOps)
              ELSE OpLists(AfterOps) \cup {<<"getSponsors">>}}

\* A registry: an object's entries in insertion order, its keys distinct.
Registries(entries) ==
    {q \in UNION {[1..n -> entries] : n \in 0..MaxEntries} :
        \A a, b \in DOMAIN q :
            a # b => <<q[a].hookPattern, q[a].attrPattern>> # <<q[b].hookPattern, q[b].attrPattern>>}

\* Before inputs: sponsors nowhere, in the bag (also as null, also under the
\* prefixed name), in the change list, in primaryData.
RunInputs ==
    {MkInput(Str("u1"), Undef, b, EmptyBag, <<>>) :
        b \in {MkBag(Undef, Undef, Undef), MkBag(Str("b@x"), Undef, Undef),
               MkBag(Null, Undef, Undef), MkBag(Undef, Str("a@x"), Undef)}}
    \cup {MkInput(Str("u1"), Undef, MkBag(Undef, Undef, Undef), EmptyBag,
                  <<[op |-> "Set", attribute |-> "sponsors", value |-> Str("b@x")]>>),
          MkInput(Str("u1"), Undef, MkBag(Undef, Undef, Undef),
                  [k \in {"sponsors"} |-> Str("a@x")], <<>>)}

\* Output elements: without an attribute bag, with one, with an empty one
\* and no identity.
RunElements ==
    {[k \in {"identity"} |-> Str("u1")],
     [identity |-> Str("u2"),
      attributes |-> [objectId |-> Str("u1"), sponsors |-> Str("old")]],
     [k \in {"attributes"} |-> EmptyBag]}

\* Outputs: one object, or a list of elements (also the empty list).
RunOutputs ==
    {[isArray |-> FALSE, items |-> <<x>>] : x \in RunElements}
    \cup {[isArray |-> TRUE, items |-> q] :
             q \in UNION {[1..n -> RunElements] : n \in 0..MaxItems}}

\* !item?.attributes is false: an attributes property holds an object here
HasBag(item) == "attributes" \in DOMAIN item
BagOf(item) == IF HasBag(item) THEN item["attributes"] ELSE EmptyBag

\* The property names '0', '1', ... of a string's or an array's elements
IndexKey(n) == CASE n = 1 -> "0" [] n = 2 -> "1" [] n = 3 -> "2" [] OTHER -> "3"
\* The characters of the strings operations return
Chars(str) ==
    CASE str = "a@x" -> <<"a", "@", "x">>
      [] str = "c@x" -> <<"c", "@", "x">>
      [] OTHER -> <<str>>
Indexed(q) ==
    [k \in {IndexKey(n) : n \in 1..Len(q)} |->
        Str(q[CHOOSE n \in 1..Len(q) : IndexKey(n) = k])]
\* The own enumerable properties ...value spreads into an object literal
SpreadOf(value) ==
    CASE value.kind = "object" -> value.fields
      [] value.kind = "string" -> Indexed(Chars(value.items[1]))
      [] value.kind = "array" -> Indexed(value.items)
      [] OTHER -> EmptyBag

\* What a stand-in before operation returns for the input it is given.
BeforeOperationReturns(op, input) ==
    CASE op = "strip" -> Obj(stripSponsorsFromInput(input))
      [] op = "tag" -> Obj([identity |-> Str("t1")])
      [] OTHER -> Undef

\* What a stand-in after operation returns for the element it is given.
AfterOperationReturns(op, item) ==
    CASE op = "value" -> Str("v")
      [] op = "patch" -> Obj([attributes |-> Spread(BagOf(item), [sponsors |-> Str("v")])])
      [] OTHER -> Undef

RunOp(r) == r.operations[r.e].ops[r.o]

Invoked(r, arg, out, raised) ==
    [e |-> r.e, o |-> r.o, i |-> r.i, op |-> RunOp(r), arg |-> arg, out |-> out,
     raised |-> raised, fetched |-> r.fetched, failed |-> r.failed]

\* The operation invocation the handler is at: entry, operation, element
Flight(r) == [e |-> r.e, o |-> r.o, i |-> r.i]

\* await operation(context, ...): the handler calls the operation it is at,
\* which is in flight until it returns or throws.
Begin_fanOut(r) ==
    [r EXCEPT !.inflight = @ \cup {[e |-> r.e, o |-> r.o, i |-> n] : n \in r.i..Len(r.result)}
                             \cup {Flight(r)}]
Begin(r) == [r EXCEPT !.inflight = @ \cup {Flight(r)}]

\* The host calls a handler built by runBeforeOperations; it awaits readConfig().
runBeforeOperations ==
    /\ eng.pc = "idle"
    /\ \E operations \in Registries(RunEntries("before")), input \in RunInputs :
          eng' = [IdleRun EXCEPT !.pc = "cfg", !.runner = "before",
                                 !.hookName = RunHook("before"),
                                 !.operations = operations,
                                 !.payload = input, !.input = input]
    /\ UNCHANGED <<inv, inputCache, sponsors, fn>>

BeforeLoop_original(r, input) ==
    LET e == IF r.e > 0 /\ r.o < Len(r.operations[r.e].ops) THEN r.e
             ELSE NextEntryOf(r.operations, r.hookName, r.payload, r.e + 1)
        o == IF e = r.e THEN r.o + 1 ELSE 1
    IN  IF e = 0
        THEN [r EXCEPT !.pc = "ret", !.input = input, !.e = 0, !.o = 0]
        ELSE Begin([r EXCEPT !.pc = "op", !.input = input, !.e = e, !.o = o])
\* The loop of the before handler from the operation at (r.e, r.o) on, with
\* the running input: up to the call of the next operation or the return.
BeforeLoop(r, input) ==
    LET e == IF r.e > 0 /\ r.o < Len(r.operations[r.e].ops) THEN r.e
             ELSE NextEntryOf(r.operations, r.hookName, input, r.e + 1)
        o == IF e = r.e THEN r.o + 1 ELSE 1
    IN  IF e = 0
        THEN [r EXCEPT !.pc = "ret", !.input = input, !.e = 0, !.o = 0]
        ELSE Begin([r EXCEPT !.pc = "op", !.input = input, !.e = e, !.o = o])

\* readConfig() resolved in the before handler.
BeforeStart ==
    /\ eng.pc = "cfg"
    /\ eng.runner = "before"
    /\ eng' = BeforeLoop(eng, eng.input)
    /\ UNCHANGED <<inv, inputCache, sponsors, fn>>

\* The operation the before handler awaits returns or throws.
BeforeOperationDone ==
    /\ eng.pc = "op"
    /\ eng.runner = "before"
    /\ LET out == BeforeOperationReturns(RunOp(eng), eng.input)
           r == [eng EXCEPT !.inflight = @ \ {Flight(eng)}, !.trace = Append(@, Invoked(eng, eng.input, out,
                                                        RunOp(eng) = "raise"))]
       IN  eng' = IF RunOp(eng) = "raise" THEN [r EXCEPT !.pc = "err"]
                  ELSE IF Truthy(out)
                  THEN BeforeLoop([r EXCEPT !.inputIsPayload = FALSE],
                                  MergeInput(eng.input, out.fields))
                  ELSE BeforeLoop(r, eng.input)
    /\ UNCHANGED <<inv, inputCache, sponsors, fn>>

\* The host calls a handler built by runAfterOperations; it awaits readConfig().
\* The objects of the output get the references 1..n.
runAfterOperations ==
    /\ eng.pc = "idle"
    /\ \E operations \in Registries(RunEntries("after")), output \in RunOutputs :
          eng' = [IdleRun EXCEPT !.pc = "cfg", !.runner = "after",
                                 !.hookName = RunHook("after"),
                                 !.operations = operations, !.payload = output,
                                 !.isArray = output.isArray, !.heap = output.items,
                                 !.items = [n \in 1..Len(output.items) |-> n],
                                 !.result = [n \in 1..Len(output.items) |-> n]]
    /\ UNCHANGED <<inv, inputCache, sponsors, fn>>

\* if (result === items) result = [...items]; result[i] = currentItem
ReplaceSlot_inPlace(r, i, currentItem) ==
    LET heap == Append(r.heap, currentItem)
    IN  [r EXCEPT !.heap = heap,
                  !.result = [r.result EXCEPT ![i] = Len(heap)],
                  !.items = IF r.aliased THEN [r.items EXCEPT ![i] = Len(heap)] ELSE @]
ReplaceSlot(r, i, currentItem) ==
    LET heap == Append(r.heap, currentItem)
    IN  [r EXCEPT !.heap = heap,
                  !.result = [r.result EXCEPT ![i] = Len(heap)],
                  !.aliased = FALSE]

\* return (isArray ? result : result[0])
Return_list(r) == [list |-> TRUE, refs |-> r.result]
Return(r) ==
    IF r.isArray THEN [list |-> TRUE, refs |-> r.result]
    ELSE [list |-> FALSE, refs |-> <<r.result[1]>>]

\* Which elements of the result list have an attribute bag now
BagsOf(r) == [n \in 1..Len(r.result) |-> HasBag(r.heap[r.result[n]])]

\* The loops of the after handler from the operation at (r.e, r.i, r.o) on, up
\* to the call of the next operation or the return.
AfterLoop(r) ==
    IF r.e > 0 /\ r.o < Len(r.operations[r.e].ops)
    THEN Begin([r EXCEPT !.pc = "op", !.o = r.o + 1, !.fetched = Undef, !.failed = FALSE])
    ELSE LET r2 == IF r.e > 0 /\ r.mutated THEN ReplaceSlot(r, r.i, r.currentItem) ELSE r
             nxt == IF r.e = 0 THEN NextItemOf(r.operations, r.hookName, BagsOf(r2), 1, 1)
                    ELSE NextItemOf(r.operations, r.hookName, BagsOf(r2), r.e, r.i + 1)
         IN  IF nxt.e = 0
             THEN [r2 EXCEPT !.pc = "ret", !.e = 0, !.o = 0, !.i = 0, !.fetched = Undef,
                             !.failed = FALSE,
                             !.ret = Return(r2)]
             ELSE Begin([r2 EXCEPT !.pc = "op", !.e = nxt.e, !.i = nxt.it, !.o = 1,
                                   !.fetched = Undef, !.failed = FALSE, !.mutated = FALSE,
                                   !.currentItem = r2.heap[r2.result[nxt.it]]])

\* readConfig() resolved in the after handler.
AfterStart ==
    /\ eng.pc = "cfg"
    /\ eng.runner = "after"
    /\ eng' = AfterLoop(eng)
    /\ UNCHANGED <<inv, inputCache, sponsors, fn>>

HookAfterReturned_write(r, functionOutput) ==
    LET r2 == [r EXCEPT !.inflight = @ \ {Flight(r)}, !.trace = Append(@, Invoked(r, r.currentItem, functionOutput, FALSE))]
        key == AttrName(r.operations[r.e].attrPattern)
    IN  AfterLoop([r2 EXCEPT !.currentItem =
                                 Spread(r.currentItem,
                                        [attributes |-> Spread(BagOf(r.currentItem),
                                                               [k \in {key} |-> functionOutput])]),
                             !.mutated = TRUE])
\* The after handler of the engine resumes with what the operation returned.
HookAfterReturned(r, functionOutput) ==
    LET r2 == [r EXCEPT !.inflight = @ \ {Flight(r)}, !.trace = Append(@, Invoked(r, r.currentItem, functionOutput, FALSE))]
    IN  IF Truthy(functionOutput)
        THEN AfterLoop([r2 EXCEPT !.currentItem = Spread(@, SpreadOf(functionOutput)),
                                  !.mutated = TRUE])
        ELSE AfterLoop(r2)

Raised_swallowed(r) ==
    AfterLoop([r EXCEPT !.inflight = @ \ {Flight(r)}, !.trace = Append(@, Invoked(r, r.currentItem, Undef, TRUE))])
\* An operation threw: the error leaves the handler.
Raised(r) ==
    [r EXCEPT !.pc = "err", !.inflight = @ \ {Flight(r)}, !.trace = Append(@, Invoked(r, r.currentItem, Undef, TRUE))]

\* A stand-in operation the after handler awaits returns or throws.
AfterOperationDone ==
    /\ eng.pc = "op"
    /\ eng.runner = "after"
    /\ RunOp(eng) # "getSponsors"
    /\ eng' = IF RunOp(eng) = "raise" THEN Raised(eng)
              ELSE HookAfterReturned(eng, AfterOperationReturns(RunOp(eng), eng.currentItem))
    /\ UNCHANGED <<inv, inputCache, sponsors, fn>>

(***************************************************************************)
(* operationRunner.ts: the after handler of the attribute-map runner.  Its *)
(* registry maps an attribute name, or 'null', to one operation.           *)
(***************************************************************************)
MapKeys == {"null", "sponsors", "mail"}
MapOps == AfterOps \cup {"getSponsors"}
MapEntries == {MkEntry("*", k, <<op>>) : k \in MapKeys, op \in MapOps}

\* An object, as opposed to undefined or a string an operation returned
IsObject(cell) == "kind" \notin DOMAIN cell
\* What a list slot holds when it is assigned value
CellOf(value) == IF value.kind = "object" THEN value.fields ELSE value

\* The host calls a handler built by runAfterOperations of operationRunner.ts.
\* frozen: what the host froze of the elements it passes, nothing, the
\* elements only (Object.freeze is shallow), or the elements and their
\* attribute bags.
FreezeKinds == {"none", "shallow", "deep"}
mapRunAfterOperations ==
    /\ eng.pc = "idle"
    /\ \E operations \in Registries(MapEntries), output \in RunOutputs, frozen \in FreezeKinds :
          eng' = [IdleRun EXCEPT !.pc = "cfg", !.runner = "mapAfter",
                                 !.operations = operations, !.payload = output,
                                 !.frozen = frozen,
                                 !.isArray = output.isArray, !.heap = output.items,
                                 !.items = [n \in 1..Len(output.items) |-> n],
                                 !.result = [n \in 1..Len(output.items) |-> n]]
    /\ UNCHANGED <<inv, inputCache, sponsors, fn>>

\* The first (entry, element) from (e, it) on for which the handler calls the
\* operation, e = 0 when there is none.
RECURSIVE NextMapItem(_, _, _, _)
NextMapItem(operations, bags, e, it) ==
    IF e > Len(operations) THEN [e |-> 0, it |-> 0]
    ELSE IF it > Len(bags) THEN NextMapItem(operations, bags, e + 1, 1)
    ELSE IF operations[e].attrPattern # "null" /\ ~bags[it]
    THEN NextMapItem(operations, bags, e, it + 1)
    ELSE [e |-> e, it |-> it]

MapAfterLoop(r) ==
    LET nxt == IF r.e = 0 THEN NextMapItem(r.operations, BagsOf(r), 1, 1)
               ELSE NextMapItem(r.operations, BagsOf(r), r.e, r.i + 1)
    IN  IF nxt.e = 0
        THEN [r EXCEPT !.pc = "ret", !.e = 0, !.o = 0, !.i = 0, !.fetched = Undef,
                       !.failed = FALSE,
                       !.ret = Return(r)]
        ELSE Begin([r EXCEPT !.pc = "op", !.e = nxt.e, !.i = nxt.it, !.o = 1,
                             !.fetched = Undef, !.failed = FALSE,
                             !.currentItem = r.heap[r.result[nxt.it]]])

\* readConfig() resolved in the handler of the attribute-map runner.
MapAfterStart ==
    /\ eng.pc = "cfg"
    /\ eng.runner = "mapAfter"
    /\ eng' = MapAfterLoop(eng)
    /\ UNCHANGED <<inv, inputCache, sponsors, fn>>

\* utils.ts setAttribute(object, 'attributes.' + key, value) on an object that
\* has an attribute bag: the object it leaves and what it returns.  A write
\* to a frozen bag throws and is caught; the object itself is not written
\* to, so that it is frozen makes no difference.
setAttribute_written(object, key, value, frozen) ==
    [ok |-> TRUE,
     object |-> Spread(object, [attributes |-> Spread(BagOf(object), [k \in {key} |-> value])])]
setAttribute(object, key, value, frozen) ==
    IF frozen THEN [ok |-> FALSE, object |-> object]
    ELSE [ok |-> TRUE,
          object |-> Spread(object, [attributes |-> Spread(BagOf(object), [k \in {key} |-> value])])]

\* utils.ts setAttributeImmutable(object, 'attributes.' + key, value)
setAttributeImmutable(object, key, value) ==
    Spread(object, [attributes |-> Spread(BagOf(object), [k \in {key} |-> value])])

\* The attribute bag of the object at ref is frozen: the host froze it.  The
\* objects operations return and the copies the handler makes are not frozen.
BagFrozen(r, ref) == r.frozen = "deep" /\ ref <= Len(r.payload.items)

\* result[i] = value, on the list the host passed while result === items
AssignSlot(r, i, cell) ==
    LET heap == Append(r.heap, cell)
    IN  [r EXCEPT !.heap = heap,
                  !.result = [r.result EXCEPT ![i] = Len(heap)],
                  !.items = IF r.aliased THEN [r.items EXCEPT ![i] = Len(heap)] ELSE @]

\* The handler of the attribute-map runner resumes with what the operation
\* returned.
MapAfterReturned(r, value) ==
    LET key == r.operations[r.e].attrPattern
        r2 == [r EXCEPT !.inflight = @ \ {Flight(r)}, !.trace = Append(@, Invoked(r, r.currentItem, value, FALSE))]
        set == setAttribute(r.currentItem, AttrName(key), value, BagFrozen(r, r.result[r.i]))
    IN  IF key = "null" THEN MapAfterLoop(AssignSlot(r2, r.i, CellOf(value)))
        ELSE IF set.ok
        THEN MapAfterLoop([r2 EXCEPT !.heap = [@ EXCEPT ![r.result[r.i]] = set.object]])
        ELSE MapAfterLoop(ReplaceSlot(r2, r.i,
                              setAttributeImmutable(r.currentItem, AttrName(key), value)))

AfterReturned(r, value) ==
    IF r.runner = "after" THEN HookAfterReturned(r, value) ELSE MapAfterReturned(r, value)

\* A stand-in operation the handler of the attribute-map runner awaits
\* returns or throws.
MapAfterOperationDone ==
    /\ eng.pc = "op"
    /\ eng.runner = "mapAfter"
    /\ RunOp(eng) # "getSponsors"
    /\ eng' = IF RunOp(eng) = "raise" THEN Raised(eng)
              ELSE MapAfterReturned(eng, AfterOperationReturns(RunOp(eng), eng.currentItem))
    /\ UNCHANGED <<inv, inputCache, sponsors, fn>>

(***************************************************************************)
(* operations/getSponsors.ts, as an operation of the after handler.        *)
(***************************************************************************)
MaxSponsors == 2
SponsorUpns == {"a@x", "c@x"}

\* What GET /users/{id}/sponsors may answer: a list of sponsors, or an error.
SponsorLists ==
    {q \in UNION {[1..n -> SponsorUpns] : n \in 0..MaxSponsors} :
        \A a, b \in DOMAIN q : a # b => q[a] # q[b]}
SponsorResponses ==
    {[ok |-> TRUE, value |-> q] : q \in SponsorLists} \cup {[ok |-> FALSE, value |-> <<>>]}

\* getSponsorsForGuest: the list, [] when the request failed.
getSponsorsForGuest(response) == IF response.ok THEN response.value ELSE <<>>

\* The userId getSponsors looks up, undefined when the account gives none.
SponsorsUserId(account) ==
    LET objectId == Coalesce(Get(BagOf(account), "objectId"), Get(account, "identity"))
    IN  IF objectId.kind = "string" THEN objectId ELSE Undef

\* What getSponsors returns for the sponsors fetched.
getSponsorsResult_list(fetched) ==
    IF Len(fetched) = 1 THEN Str(fetched[1]) ELSE Arr(fetched)
getSponsorsResult(fetched) ==
    IF Len(fetched) = 0 THEN Undef
    ELSE IF Len(fetched) = 1 THEN Str(fetched[1])
    ELSE Arr(fetched)

\* getSponsors, from its start to its return or to its downstream call.
getSponsors ==
    /\ eng.pc = "op"
    /\ RunOp(eng) = "getSponsors"
    /\ eng' = IF ~IsObject(eng.currentItem) THEN Raised(eng)
              ELSE IF HasBag(eng.currentItem) /\ Truthy(SponsorsUserId(eng.currentItem))
              THEN [eng EXCEPT !.pc = "fetch"]
              ELSE AfterReturned(eng, Undef)
    /\ UNCHANGED <<inv, inputCache, sponsors, fn>>

getSponsorsReply_raises ==
    /\ eng.pc = "fetch"
    /\ \E response \in SponsorResponses :
          LET fetched == getSponsorsForGuest(response)
              r == [eng EXCEPT !.fetched = Arr(fetched), !.failed = ~response.ok]
          IN  eng' = IF response.ok THEN AfterReturned(r, getSponsorsResult(fetched))
                     ELSE Raised(r)
    /\ UNCHANGED <<inv, inputCache, sponsors, fn>>
\* The downstream answers getSponsorsForGuest, or the request fails;
\* getSponsors returns.
getSponsorsReply ==
    /\ eng.pc = "fetch"
    /\ \E response \in SponsorResponses :
          LET fetched == getSponsorsForGuest(response)
          IN  eng' = AfterReturned([eng EXCEPT !.fetched = Arr(fetched),
                                              !.failed = ~response.ok],
                                   getSponsorsResult(fetched))
    /\ UNCHANGED <<inv, inputCache, sponsors, fn>>

NextEngine ==
    \/ runBeforeOperations
    \/ BeforeStart
    \/ BeforeOperationDone
    \/ runAfterOperations
    \/ AfterStart
    \/ AfterOperationDone
    \/ mapRunAfterOperations
    \/ MapAfterStart
    \/ MapAfterOperationDone
    \/ getSponsors
    \/ getSponsorsReply

SpecEngine == Init /\ [][NextEngine]_vars

(***************************************************************************)
(* The helper functions of entraid-client.ts and utils.ts, applied to      *)
(* arguments of their own.  A string is the sequence of its characters.    *)
(***************************************************************************)
MaxHookLen == 3
MaxPatternLen == 3

\* The characters of hook names, and of hook patterns: '*' besides
HookChars == {"a", "b", "$"}
HookNames == UNION {[1..n -> HookChars] : n \in 0..MaxHookLen}
HookPatterns == UNION {[1..n -> HookChars \cup {"*"}] : n \in 0..MaxPatternLen}

\* regex.test(hook) for the regular expression ^...$ around the characters
\* source: a '*' stands for '.*', a '$' asserts the end of the input, any
\* other character here matches itself.
RECURSIVE RegExpTest(_, _)
RegExpTest(source, hook) ==
    IF source = <<>> THEN hook = <<>>
    ELSE IF Head(source) = "*"
    THEN \E k \in 0..Len(hook) : RegExpTest(Tail(source), SubSeq(hook, k + 1, Len(hook)))
    ELSE IF Head(source) = "$"
    THEN hook = <<>> /\ RegExpTest(Tail(source), hook)
    ELSE hook # <<>> /\ Head(hook) = Head(source) /\ RegExpTest(Tail(source), Tail(hook))

\* matchesPattern(hook, pattern), on the characters of its arguments
matchesPatternChars_exact(hook, pattern) == pattern = <<"*">> \/ pattern = hook
matchesPatternChars(hook, pattern) ==
    IF pattern = <<"*">> THEN TRUE ELSE RegExpTest(pattern, hook)

\* matchesPattern is applied to a hook name and a pattern.
matchesPatternCall ==
    /\ fn.name = "none"
    /\ \E hook \in HookNames, pattern \in HookPatterns :
          fn' = [name |-> "matchesPattern", args |-> [hook |-> hook, pattern |-> pattern],
                 result |-> matchesPatternChars(hook, pattern)]
    /\ UNCHANGED <<inv, inputCache, sponsors, eng>>

\* utils.ts setAttributeImmutable, on objects held by reference: a heap is
\* the sequence of the objects there are, an object the function from its
\* property names to their values, and the value of 'attributes' the
\* reference of the attribute bag.  Reference 0 is no object (undefined).
Ref(n) == [kind |-> "ref", items |-> <<n>>]
ImmHeaps ==
    {<<[k \in {"identity"} |-> Str("u1")]>>,
     <<[identity |-> Str("u2"), attributes |-> Ref(2)],
       [objectId |-> Str("u1"), sponsors |-> Str("old")]>>,
     <<[k \in {"attributes"} |-> Ref(2)], EmptyBag>>,
     <<[identity |-> Str("u1"), attributes |-> Null]>>}
\* The attribute paths, as their parts between the '.'s
ImmPaths ==
    {<<"attributes", "sponsors">>, <<"attributes", "mail">>, <<"disabled">>,
     <<"identity">>, <<"attributes">>, <<"attributes", "attributes", "sponsors">>}
ImmValues == {Undef, Str("v")}

\* attribute.startsWith('attributes.')
IsPrefixed(attribute) == Len(attribute) >= 2 /\ attribute[1] = "attributes"
\* attribute.substring('attributes.'.length), one key whatever '.'s it holds
KeyOf(attribute) == AfterFirstDot(attribute)
\* object.attributes holds an object
HoldsBag(heap, object) ==
    "attributes" \in DOMAIN heap[object] /\ heap[object]["attributes"].kind = "ref"
\* { ...(object.attributes ?? {}) }
AttrsOf(heap, object) ==
    IF HoldsBag(heap, object) THEN heap[heap[object]["attributes"].items[1]]
    ELSE EmptyBag

\* setAttributeImmutable(object, attribute, value): the heap it leaves and
\* the reference it returns.
setAttributeImmutableAt_sharedBag(heap, object, attribute, value) ==
    IF object = 0 THEN [heap |-> heap, ref |-> 0]
    ELSE IF IsPrefixed(attribute) /\ HoldsBag(heap, object)
    THEN LET bag == heap[object]["attributes"].items[1]
         IN  [heap |-> Append([heap EXCEPT ![bag] =
                                  Spread(@, [k \in {KeyOf(attribute)} |-> value])],
                              heap[object]),
              ref |-> Len(heap) + 1]
    ELSE IF IsPrefixed(attribute)
    THEN [heap |-> Append(Append(heap, [k \in {KeyOf(attribute)} |-> value]),
                          Spread(heap[object], [attributes |-> Ref(Len(heap) + 1)])),
          ref |-> Len(heap) + 2]
    ELSE [heap |-> Append(heap, Spread(heap[object], [k \in {attribute[1]} |-> value])),
          ref |-> Len(heap) + 1]
setAttributeImmutableAt(heap, object, attribute, value) ==
    IF object = 0 THEN [heap |-> heap, ref |-> 0]
    ELSE IF IsPrefixed(attribute)
    THEN LET attrs == AttrsOf(heap, object)
             heap1 == Append(heap, Spread(attrs, [k \in {KeyOf(attribute)} |-> value]))
         IN  [heap |-> Append(heap1, Spread(heap[object], [attributes |-> Ref(Len(heap1))])),
              ref |-> Len(heap1) + 1]
    ELSE [heap |-> Append(heap, Spread(heap[object], [k \in {attribute[1]} |-> value])),
          ref |-> Len(heap) + 1]

\* utils.ts setAttribute on an object that can be written to: whether it
\* reports success and the heap it leaves.
setAttributeAt_topLevel(heap, object, attribute, value) ==
    IF object = 0 THEN [ok |-> FALSE, heap |-> heap]
    ELSE [ok |-> TRUE,
          heap |-> [heap EXCEPT ![object] =
                       Spread(@, [k \in {IF IsPrefixed(attribute) THEN KeyOf(attribute)
                                         ELSE attribute[1]} |-> value])]]
setAttributeAt(heap, object, attribute, value) ==
    IF object = 0 THEN [ok |-> FALSE, heap |-> heap]
    ELSE IF IsPrefixed(attribute)
    THEN LET heap1 == IF HoldsBag(heap, object) THEN heap
                      ELSE Append([heap EXCEPT ![object] =
                                      Spread(@, [attributes |-> Ref(Len(heap) + 1)])],
                                  EmptyBag)
             bag == heap1[object]["attributes"].items[1]
         IN  [ok |-> TRUE,
              heap |-> [heap1 EXCEPT ![bag] = Spread(@, [k \in {KeyOf(attribute)} |-> value])]]
    ELSE [ok |-> TRUE,
          heap |-> [heap EXCEPT ![object] = Spread(@, [k \in {attribute[1]} |-> value])]]

\* setAttribute is applied to an object (or to undefined), a path and a value.
setAttributeCall ==
    /\ fn.name = "none"
    /\ \E heap \in ImmHeaps, object \in {0, 1}, attribute \in ImmPaths, value \in ImmValues :
          fn' = [name |-> "setAttribute",
                 args |-> [heap |-> heap, object |-> object, attribute |-> attribute,
                           value |-> value],
                 result |-> setAttributeAt(heap, object, attribute, value)]
    /\ UNCHANGED <<inv, inputCache, sponsors, eng>>

\* setAttributeImmutable is applied to an object (or to undefined), a path
\* and a value.
setAttributeImmutableCall ==
    /\ fn.name = "none"
    /\ \E heap \in ImmHeaps, object \in {0, 1}, attribute \in ImmPaths, value \in ImmValues :
          fn' = [name |-> "setAttributeImmutable",
                 args |-> [heap |-> heap, object |-> object, attribute |-> attribute,
                           value |-> value],
                 result |-> setAttributeImmutableAt(heap, object, attribute, value)]
    /\ UNCHANGED <<inv, inputCache, sponsors, eng>>

NextPure ==
    \/ matchesPatternCall
    \/ setAttributeImmutableCall
    \/ setAttributeCall

SpecPure == Init /\ [][NextPure]_vars

(***************************************************************************)
(* Properties of the sponsor hand-off.                                     *)
(***************************************************************************)
HasNoSponsorsEntry(input) ==
    /\ "sponsors" \notin DOMAIN input.attributes
    /\ "attributes.sponsors" \notin DOMAIN input.attributes
    /\ SelectSeq(input.changes, IsSponsorsChange) = <<>>

\* The before handler of r ran preSetSponsors (its entry applied to the input).
RanPreSetSponsors(r) == NextBeforeEntry(BeforeHook(r.cmd), r.orig, 1) # 0

FoundCount(obs) == Cardinality({n \in 1..Len(obs) : obs[n].found})

\* The first lookup returned what the before phase put, later ones nothing.
TakenOnce(r) ==
    /\ Len(r.obs) >= 1 => r.obs[1] = r.put
    /\ \A n \in 2..Len(r.obs) : r.obs[n] = NotFound

\* C1 as stated: a create command with a key whose input carries a set-change
\* for sponsors with value v returns from the before handler with no
\* downstream call made, sponsors absent from the attribute bag and the
\* change list, and a pending change (set, v) in the cache under the key.
C1_AsStated ==
    \A i \in Invs :
        LET r == inv[i]
        IN  (/\ r.pc = "b_ret"
             /\ isCreateCommand(r.context)
             /\ cacheKey(r.context) # NoKey) =>
            \A n \in 1..Len(r.orig.changes) :
                (r.orig.changes[n].op = "Set" /\ r.orig.changes[n].attribute = "sponsors") =>
                    /\ r.calls = <<>>
                    /\ HasNoSponsorsEntry(r.input)
                    /\ cacheKey(r.context) \in DOMAIN inputCache
                    /\ inputCache[cacheKey(r.context)].pendingSponsor =
                           [present |-> TRUE, op |-> "Set", upn |-> r.orig.changes[n].value]

\* The input's sponsors request is a set-change in the change list alone.
C1_Case(r) ==
    /\ isCreateCommand(r.context)
    /\ cacheKey(r.context) # NoKey
    /\ SponsorsChange(r.orig).op = "Set"
    /\ SponsorsChange(r.orig).attribute = "sponsors"
    /\ "sponsors" \notin DOMAIN r.orig.attributes
    /\ "attributes.sponsors" \notin DOMAIN r.orig.attributes

\* C1, amended: deferred creation.  For a create command with a key whose
\* first sponsors change is a set-change with value v and whose attribute bag
\* has no sponsors entry, the before handler returns with no downstream call
\* made, with sponsors absent from the bag and the change list, and with a
\* pending change in the cache under the key of kind set and value v (the
\* first element of v when v is a list); with no other invocation on the
\* key, the first lookup of the after phase returns that record and every
\* later one returns absent.
C1_DeferredCreation ==
    \A i \in Invs :
        LET r == inv[i]
        IN  /\ (r.pc = "b_ret" /\ C1_Case(r)) =>
                  /\ r.calls = <<>>
                  /\ HasNoSponsorsEntry(r.input)
                  /\ cacheKey(r.context) \in DOMAIN inputCache
                  /\ inputCache[cacheKey(r.context)] = r.put.rec
                  /\ r.put.rec.pendingSponsor =
                         [present |-> TRUE, op |-> "Set",
                          upn |-> FirstOf(SponsorsChange(r.orig).value)]
            /\ (r.put.found /\ r.put.rec.pendingSponsor.present) =>
                  /\ TakenOnce(r)
                  /\ \A n \in 1..Len(r.calls) : r.calls[n].phase = "after"

C1_Witness ==
    \E i \in Invs :
        /\ inv[i].put.found
        /\ inv[i].put.rec.pendingSponsor = [present |-> TRUE, op |-> "Set", upn |-> Str("b@x")]
        /\ Len(inv[i].obs) = 2
        /\ inv[i].obs[1] = inv[i].put
        /\ inv[i].obs[2] = NotFound

\* C2: getCachedInput is single-use.  After a put under a key the first
\* call with that key returns the record and removes it from the cache, and
\* every later call with that key returns absent.
C2_TakeOnce ==
    \A i \in Invs :
        /\ TakenOnce(inv[i])
        /\ Len(inv[i].obs) >= 1 => cacheKey(inv[i].context) \notin DOMAIN inputCache

C2_Witness ==
    \E i \in Invs :
        /\ Len(inv[i].obs) = 2
        /\ inv[i].obs[1].found
        /\ inv[i].obs[2] = NotFound

\* C3: under every interleaving of two after-phase callers that take the
\* cache record of the same key, at most one of them observes the record a
\* before phase put and the other observes absent.
C3_AtMostOneTaker ==
    \A w \in Invs :
        Cardinality({p \in Invs \X (1..MaxItems) :
                        /\ p[2] <= Len(inv[p[1]].obs)
                        /\ inv[p[1]].obs[p[2]].found
                        /\ inv[p[1]].obs[p[2]].rec.by = w}) <= 1

C3_Witness ==
    /\ cacheKey(inv["X"].context) = cacheKey(inv["Y"].context)
    /\ Len(inv["X"].obs) = 1 /\ Len(inv["Y"].obs) = 1
    /\ inv["X"].put.found
    /\ inv["X"].obs[1] = NotFound
    /\ inv["Y"].obs[1].found
    /\ inv["Y"].obs[1].rec.by = "X"

\* C4: for two invocations with different correlation keys, under every
\* interleaving of their before and after phases on the shared cache, the
\* after phase of each observes exactly the record its own before phase put
\* (absent if it put none) and never a record the other put.
C4_KeyIsolation ==
    (/\ inv["X"].pc # "idle" /\ inv["Y"].pc # "idle"
     /\ cacheKey(inv["X"].context) # cacheKey(inv["Y"].context)) =>
        \A i \in Invs :
            /\ TakenOnce(inv[i])
            /\ \A n \in 1..Len(inv[i].obs) :
                  inv[i].obs[n].found => inv[i].obs[n].rec.by = i

C4_Witness ==
    /\ cacheKey(inv["X"].context) = "k1"
    /\ cacheKey(inv["Y"].context) = "k2"
    /\ \A i \in Invs :
          /\ inv[i].pc = "a_ret"
          /\ inv[i].put.found
          /\ inv[i].obs = <<inv[i].put>>

\* C5 as stated: once the after handler of an invocation has returned, the
\* cache holds no entry under the invocation's key and the record its before
\* phase wrote was read exactly once.
C5_AsStated ==
    \A i \in Invs :
        inv[i].pc = "a_ret" =>
            /\ cacheKey(inv[i].context) \notin DOMAIN inputCache
            /\ inv[i].put.found => FoundCount(inv[i].obs) = 1

\* C5, amended: once the after handler of an invocation has returned for an
\* output of which some element has an attribute bag, and no other
\* invocation used its key, the cache holds no entry under the invocation's
\* key and the record its before phase wrote was read exactly once.
C5_NoRecordOutlives ==
    \A i \in Invs :
        (/\ inv[i].pc = "a_ret"
         /\ \E n \in 1..Len(inv[i].output.items) : inv[i].output.items[n].hasAttrs) =>
            /\ cacheKey(inv[i].context) \notin DOMAIN inputCache
            /\ inv[i].put.found => FoundCount(inv[i].obs) = 1

C5_Witness ==
    \E i \in Invs :
        /\ inv[i].pc = "a_ret"
        /\ inv[i].put.found
        /\ Len(inv[i].output.items) = 2
        /\ ~inv[i].output.items[1].hasAttrs
        /\ inv[i].output.items[2].hasAttrs
        /\ FoundCount(inv[i].obs) = 1
        /\ inputCache = [k \in {} |-> NoRecord]

\* C6: in the create branch and in the other branch, whenever the before
\* operation returns normally for an input that carried a sponsors value or
\* a sponsors change, the input the before handler returns after merging has
\* no sponsors entry in its attribute bag and none in its change list.
C6_Stripped ==
    \A i \in Invs :
        (/\ inv[i].pc = "b_ret"
         /\ RanPreSetSponsors(inv[i])
         /\ ~NoSponsorRequest(inv[i].orig)) => HasNoSponsorsEntry(inv[i].input)

\* C7 as stated: after the before operation stripped the sponsors attribute
\* from an input, the engine's presence test for it (attribute bag under the
\* short or the prefixed name, primaryData, change list) reports absent on
\* the returned input.
C7_AsStated ==
    \A i \in Invs :
        (/\ inv[i].pc = "b_ret"
         /\ RanPreSetSponsors(inv[i])
         /\ ~NoSponsorRequest(inv[i].orig)) =>
            /\ ~hasAttribute(inv[i].input, "sponsors")
            /\ ~hasAttribute(inv[i].input, "attributes.sponsors")

\* C7, amended: after the before operation stripped the sponsors attribute
\* from an input whose primaryData holds no sponsors value, the engine's
\* presence test for it reports absent on the returned input.
C7_StripThenAbsent ==
    \A i \in Invs :
        (/\ inv[i].pc = "b_ret"
         /\ RanPreSetSponsors(inv[i])
         /\ ~NoSponsorRequest(inv[i].orig)
         /\ IsNullish(Get(inv[i].orig.primaryData, "sponsors"))) =>
            /\ ~hasAttribute(inv[i].input, "sponsors")
            /\ ~hasAttribute(inv[i].input, "attributes.sponsors")

C7_Witness ==
    \E i \in Invs :
        /\ inv[i].pc = "b_ret"
        /\ hasAttribute(inv[i].orig, "sponsors")
        /\ "sponsors" \in DOMAIN inv[i].orig.attributes
        /\ SelectSeq(inv[i].orig.changes, IsSponsorsChange) # <<>>
        /\ inv[i].orig.primaryData = EmptyBag
        /\ ~hasAttribute(inv[i].input, "sponsors")

\* The identity the claim names: the output's, the cached one if it has none.
C8_Target(item, rec) == IF Truthy(item.identity) THEN item.identity ELSE rec.userId

\* What setSponsors did in the step from r to r2 on a pending record.
C8_Applied(r, r2, resolves, carries) ==
    LET item == r.output.items[r.it]
        rec == r2.obs[Len(r2.obs)].rec
        target == C8_Target(item, rec)
    IN  (/\ r.pc = "a_op" /\ OpName(r) = "setSponsors" /\ r2 # r
         /\ rec.pendingSponsor.present
         /\ resolves => Truthy(target)
         /\ carries => (rec.pendingSponsor.op = "Remove" \/ Truthy(rec.pendingSponsor.upn))) =>
            /\ r2.pc = "a_graph"
            /\ r2.call.user = target.items[1]
            /\ IF rec.pendingSponsor.op = "Remove" THEN r2.call.kind = "clear"
               ELSE r2.call.kind = "set" /\ Str(r2.call.upn) = rec.pendingSponsor.upn

\* C8 as stated: if a pending-change record exists for the invocation, the
\* after operation applies it through the downstream (clear for remove, set
\* for set) to the identity of the output or, if the output carries none, of
\* the cached record.
C8_AsStated == [][\A i \in Invs : C8_Applied(inv[i], inv'[i], FALSE, FALSE)]_vars

\* C8, amended: if a pending-change record exists for the invocation and a
\* target identity resolves (from the output or, if the output carries none,
\* from the cached record), the after operation applies it through the
\* downstream to that identity: clear for remove, and set for any other
\* change that carries a sponsor value.
C8_AppliesPending == [][\A i \in Invs : C8_Applied(inv[i], inv'[i], TRUE, TRUE)]_vars

C8_Witness ==
    \E i \in Invs :
        /\ inv[i].pc = "a_graph"
        /\ inv[i].call.kind = "set"
        /\ ~Truthy(inv[i].output.items[inv[i].it].identity)
        /\ inv[i].obs[Len(inv[i].obs)].rec.pendingSponsor.present
        /\ inv[i].call.user = inv[i].obs[Len(inv[i].obs)].rec.userId.items[1]

\* C9: a downstream failure during the before-phase sponsor write of a
\* command that is not a create leaves the before handler as an error: the
\* handler does not return an input.
C9_FailurePropagates ==
    \A i \in Invs :
        (\E n \in 1..Len(inv[i].calls) :
            inv[i].calls[n].phase = "before" /\ inv[i].calls[n].outcome = "error") =>
                /\ inv[i].pc = "b_err"
                /\ ~isCreateCommand(inv[i].context)

C9_Witness ==
    \E i \in Invs :
        /\ inv[i].pc = "b_err"
        /\ inv[i].cmd = "update"
        /\ inv[i].calls = <<Logged([kind |-> "set", user |-> "u1", upn |-> "b@x"],
                                    "before", "error")>>

\* C10: when the downstream holds the three sponsors a@x, b@x, c@x for the
\* target and the cache record of the invocation carries the just-set value
\* b@x, the after-phase sponsor operation returns the single value b@x and
\* issues removal attempts for a@x and c@x.
C10_SingularEnforcement ==
    \A i \in Invs :
        (/\ inv[i].pc = "a_ret"
         /\ Len(inv[i].obs) >= 1
         /\ inv[i].obs[1].found
         /\ inv[i].obs[1].rec.setUpn = Str("b@x")
         /\ inv[i].obs[1].rec.userId = Str("u1")
         /\ sponsors["u1"] = {"a@x", "b@x", "c@x"}) =>
            /\ inv[i].ret = Str("b@x")
            /\ \A u \in {"a@x", "c@x"} :
                  \E n \in 1..Len(inv[i].calls) :
                      inv[i].calls[n].kind = "remove" /\ inv[i].calls[n].upn = u

\* C11: when the downstream call with which setSponsors applies a deferred
\* change completes, setSponsors returns what the downstream then holds as
\* the target's sponsors: undefined for none, the UPN string for exactly one,
\* an array of UPNs for several.
C11_ReadsBack ==
    [][\A i \in Invs :
          (inv[i].pc = "a_graph" /\ inv'[i].pc \notin {"a_graph", "a_err"}) =>
              LET held == sponsors'[inv[i].call.user]
              IN  /\ held = {} => inv'[i].ret = Undef
                  /\ Cardinality(held) = 1 => \E u \in held : inv'[i].ret = Str(u)
                  /\ Cardinality(held) > 1 =>
                        /\ inv'[i].ret.kind = "array"
                        /\ {inv'[i].ret.items[n] : n \in 1..Len(inv'[i].ret.items)} = held]_vars

(***************************************************************************)
(* Properties of the dispatch engines and of getSponsors.                  *)
(***************************************************************************)
\* The invocations of getSponsors of the run that the downstream answered
Lookups == {n \in 1..Len(eng.trace) :
               eng.trace[n].op = "getSponsors" /\ eng.trace[n].fetched # Undef}

NoHookMatch ==
    \A e \in 1..Len(eng.operations) :
        eng.operations[e].hookPattern \notin {"*", eng.hookName}

\* The after handler returned the object it was given: the host's list with
\* the host's objects in it, or the host's single object
ReturnedSameOutput ==
    /\ eng.aliased
    /\ eng.items = [n \in 1..Len(eng.payload.items) |-> n]
    /\ eng.ret = [list |-> eng.payload.isArray, refs |-> eng.items]
    /\ \A n \in 1..Len(eng.items) : eng.heap[n] = eng.payload.items[n]

\* C13: if no entry of the registry has a hook pattern matching the hook name
\* (in particular if the registry is empty), the handlers built by
\* runBeforeOperations and runAfterOperations invoke no operation and return
\* the payload itself, unchanged.
C13_NoMatchIsIdentity ==
    (eng.runner \in {"before", "after"} /\ NoHookMatch) =>
        /\ eng.trace = <<>>
        /\ eng.pc \in {"cfg", "ret"}
        /\ eng.pc = "ret" =>
              IF eng.runner = "before"
              THEN eng.inputIsPayload /\ eng.input = eng.payload
              ELSE ReturnedSameOutput

C13_Witness ==
    /\ eng.pc = "ret"
    /\ eng.runner = "after"
    /\ NoHookMatch
    /\ Len(eng.operations) = 2
    /\ eng.operations[1].ops = <<"value", "raise">>
    /\ eng.payload.isArray /\ Len(eng.payload.items) = 2
    /\ ReturnedSameOutput

\* Every entry of the run's registry that the handler acts on has a specific
\* attribute pattern
SpecificOnly ==
    \A e \in 1..Len(eng.operations) :
        IF eng.runner = "after"
        THEN eng.operations[e].hookPattern \in {"*", eng.hookName} =>
                 eng.operations[e].attrPattern \notin {"*", "null"}
        ELSE eng.operations[e].attrPattern # "null"

\* The elements of the output given that have no attribute bag
Bagless == {n \in 1..Len(eng.payload.items) : "attributes" \notin DOMAIN eng.payload.items[n]}

\* C14: for a registry whose matching entries all have specific attribute
\* patterns, the after handler (of the engine and of the attribute-map
\* runner) never runs an operation on, never writes to and never adds an
\* attribute bag to an element that has no attribute bag; the element is
\* returned as it was and no operation raises on it.
C14_BaglessUntouched ==
    (eng.runner \in {"after", "mapAfter"} /\ SpecificOnly) =>
        \A n \in Bagless :
            /\ \A t \in 1..Len(eng.trace) : eng.trace[t].i # n
            /\ eng.heap[n] = eng.payload.items[n]
            /\ eng.items[n] = n /\ eng.result[n] = n
            /\ eng.pc = "ret" => eng.ret.refs[n] = n

C14_Witness ==
    /\ eng.pc = "ret"
    /\ eng.runner = "after"
    /\ SpecificOnly
    /\ Bagless = {1}
    /\ Len(eng.payload.items) = 2
    /\ Len(eng.trace) = 2 /\ eng.trace[1].i = 2 /\ eng.trace[1].op = "patch"
    /\ eng.ret.refs[1] = 1 /\ eng.ret.refs[2] > 2

\* The entries of the run's registry keyed '*.*'
WildcardEntries ==
    {e \in 1..Len(eng.operations) :
        eng.operations[e].hookPattern = "*" /\ eng.operations[e].attrPattern = "*"}

\* Whether the run invoked operation o of entry e (on element i)
InvokedAt(e, o, i) ==
    \E t \in 1..Len(eng.trace) :
        eng.trace[t].e = e /\ eng.trace[t].o = o /\ eng.trace[t].i = i
InvokedOnce(e, o) ==
    \E t \in 1..Len(eng.trace) : eng.trace[t].e = e /\ eng.trace[t].o = o

LeftBy(t) ==
    LET arg == eng.trace[t].arg
        out == eng.trace[t].out
    IN  IF out.kind = "object"
        THEN [k \in DOMAIN arg \cup DOMAIN out.fields |->
                 IF k \in DOMAIN out.fields THEN out.fields[k] ELSE arg[k]]
        ELSE arg

\* The running input when the before handler comes to entry e
InputAt(e) ==
    LET earlier == {t \in 1..Len(eng.trace) : eng.trace[t].e < e}
    IN  IF earlier = {} THEN eng.payload
        ELSE LeftBy(CHOOSE t \in earlier : \A u \in earlier : u <= t)

\* Whether entry e applies to the running input the handler has at it
Applies(e) ==
    /\ eng.operations[e].hookPattern \in {"*", eng.hookName}
    /\ \/ eng.operations[e].attrPattern \in {"*", "null"}
       \/ hasAttribute(InputAt(e), eng.operations[e].attrPattern)

\* C16: the before handler evaluates every entry that matches the hook (not
\* only the first), processes entries in registration order and the
\* operations of an entry in list order, and hands each operation the running
\* input as left by the operations executed before it.
C16_AllInOrder ==
    eng.runner = "before" =>
        /\ \A t \in 1..Len(eng.trace) :
              /\ eng.trace[t].arg = IF t = 1 THEN eng.payload ELSE LeftBy(t - 1)
              /\ t > 1 =>
                    \/ eng.trace[t].e = eng.trace[t - 1].e /\ eng.trace[t].o = eng.trace[t - 1].o + 1
                    \/ eng.trace[t].e > eng.trace[t - 1].e /\ eng.trace[t].o = 1
              /\ Applies(eng.trace[t].e)
        /\ eng.pc = "ret" =>
              /\ \A e \in 1..Len(eng.operations) :
                    Applies(e) => \A o \in 1..Len(eng.operations[e].ops) : InvokedAt(e, o, 0)
              /\ eng.input = IF eng.trace = <<>> THEN eng.payload ELSE LeftBy(Len(eng.trace))

C16_Witness ==
    /\ eng.runner = "before"
    /\ eng.pc = "ret"
    /\ Len(eng.trace) = 4
    /\ eng.trace[2].op = "tag" /\ eng.trace[2].e = 1
    /\ eng.trace[3].e = 2 /\ eng.trace[3].arg.identity = Str("t1")
    /\ eng.payload.identity = Str("u1")
    /\ eng.trace[4].op = "strip" /\ eng.trace[4].arg # eng.input

\* The elements for which an operation of the run reported a change
Changed ==
    {n \in 1..Len(eng.payload.items) :
        \E t \in 1..Len(eng.trace) : eng.trace[t].i = n /\ Truthy(eng.trace[t].out)}

\* The references of the objects the host passed
HostRefs == 1..Len(eng.payload.items)

Replaced ==
    {n \in HostRefs :
        \E t \in 1..Len(eng.trace) :
            /\ eng.trace[t].i = n
            /\ ~eng.trace[t].raised
            /\ eng.runner = "mapAfter"
            /\ eng.operations[eng.trace[t].e].attrPattern = "null"}

\* C18: the after handler (of the engine and of the attribute-map runner)
\* returns one object, not a one-element list, when the output given was not
\* a list, and a list of the same length when it was one, in which slot n
\* holds original element n or what the operations made of it.
C18_ShapeKept ==
    (eng.runner \in {"after", "mapAfter"} /\ eng.pc = "ret") =>
        /\ eng.ret.list = eng.payload.isArray
        /\ Len(eng.ret.refs) = Len(eng.payload.items)
        /\ \A n \in HostRefs \ Replaced :
              /\ IsObject(eng.heap[eng.ret.refs[n]])
              /\ Get(eng.heap[eng.ret.refs[n]], "identity") = Get(eng.payload.items[n], "identity")

C18_Witness ==
    /\ eng.runner = "after"
    /\ eng.pc = "ret"
    /\ ~eng.payload.isArray
    /\ Changed = {1}
    /\ eng.ret = [list |-> FALSE, refs |-> <<2>>]
    /\ Get(eng.heap[2], "identity") = Str("u2")

\* The value operation t of the run returned was the last the handler got for
\* element n: t is the last invocation on n, by the last operation of an
\* entry with a specific attribute pattern
FinalFor(t, n) ==
    /\ eng.trace[t].i = n
    /\ ~eng.trace[t].raised
    /\ \A u \in 1..Len(eng.trace) : eng.trace[u].i = n => u <= t
    /\ eng.trace[t].o = Len(eng.operations[eng.trace[t].e].ops)
    /\ eng.operations[eng.trace[t].e].attrPattern \notin {"*", "null"}

\* C19: in the engine of entraid-client.ts, for an entry with a specific
\* attribute pattern A and an element that has an attribute bag, the returned
\* element holds at attributes[A] the value the entry's last operation
\* returned.
C19_WrittenAtPath ==
    (eng.runner = "after" /\ eng.pc = "ret") =>
        \A n \in HostRefs :
            \A t \in 1..Len(eng.trace) :
                (FinalFor(t, n) /\ Truthy(eng.trace[t].out)) =>
                    Get(BagOf(eng.heap[eng.ret.refs[n]]),
                        AttrName(eng.operations[eng.trace[t].e].attrPattern)) = eng.trace[t].out

\* An operation of the run returns undefined in this step
ReturnsUndefined ==
    /\ eng.pc \in {"op", "fetch"}
    /\ Len(eng'.trace) = Len(eng.trace) + 1
    /\ eng'.trace[Len(eng'.trace)].out = Undef
    /\ ~eng'.trace[Len(eng'.trace)].raised

\* The element the after handler holds for slot eng.i once the step is taken
ElementLeft ==
    IF eng'.pc = "op" /\ eng'.e = eng.e /\ eng'.i = eng.i THEN eng'.currentItem
    ELSE eng'.heap[eng'.result[eng.i]]

\* The step leaves the payload of the run as it was
NoChangeStep ==
    IF eng.runner = "before" THEN eng'.input = eng.input
    ELSE /\ ElementLeft = eng.currentItem
         /\ eng'.heap[eng.result[eng.i]] = eng.heap[eng.result[eng.i]]

\* C20 as stated: an operation that returns undefined causes no change, in
\* the before handler to the running input, in the after handlers to the
\* element (including a value it holds for the entry's attribute).
C20_AsStated == [][ReturnsUndefined => NoChangeStep]_vars

\* C20, amended: in the engine of entraid-client.ts an operation that returns
\* undefined causes no change: the before handler keeps the running input,
\* the after handler keeps the element, with the value it holds for the
\* entry's attribute, and replaces no object on account of that operation.
C20_UndefinedIsNoChange ==
    [][(ReturnsUndefined /\ eng.runner \in {"before", "after"}) =>
          /\ NoChangeStep
          /\ eng.runner = "before" => eng'.inputIsPayload = eng.inputIsPayload
          /\ (eng.runner = "after" /\ ~eng.mutated) =>
                /\ eng'.result = eng.result
                /\ eng'.aliased = eng.aliased]_vars

C20_Witness ==
    /\ eng.runner = "after"
    /\ eng.pc = "ret"
    /\ Len(eng.operations) = 1
    /\ eng.operations[1].attrPattern = "sponsors"
    /\ Len(eng.trace) = 1
    /\ eng.trace[1].op = "keep" /\ eng.trace[1].out = Undef
    /\ Get(BagOf(eng.trace[1].arg), "sponsors") = Str("old")
    /\ eng.ret = [list |-> FALSE, refs |-> <<1>>]
    /\ Get(BagOf(eng.heap[1]), "sponsors") = Str("old")

\* C21: if an operation throws during the before or the after handler of the
\* engine, the handler rejects with that error: the operation that threw is
\* the last one invoked in the call, and the handler returns no payload.
C21_ErrorPropagates ==
    eng.runner \in {"before", "after"} =>
        /\ \A t \in 1..Len(eng.trace) :
              eng.trace[t].raised => t = Len(eng.trace) /\ eng.pc = "err"
        /\ eng.pc = "err" =>
              /\ eng.trace # <<>> /\ eng.trace[Len(eng.trace)].raised
              /\ eng.ret = IdleRun.ret
        /\ eng.pc = "ret" => \A t \in 1..Len(eng.trace) : ~eng.trace[t].raised

C21_Witness ==
    /\ eng.runner = "after"
    /\ eng.pc = "err"
    /\ Len(eng.operations) = 2
    /\ Len(eng.payload.items) = 2
    /\ \A e \in 1..2 : eng.operations[e].hookPattern \in {"*", eng.hookName}
    /\ eng.operations[1].ops = <<"value", "raise">>
    /\ Len(eng.trace) = 2
    /\ eng.trace[2].raised /\ eng.trace[2].i = 1
    /\ ~InvokedAt(1, 1, 2) /\ ~InvokedOnce(2, 1)

\* C22: when the downstream reports that the sponsor reference to add already
\* exists, the set-sponsor call completes without raising and the before or
\* after operation around it continues normally.
C22_CollisionIsSuccess ==
    \A i \in Invs :
        (\E n \in 1..Len(inv[i].calls) : inv[i].calls[n].outcome = "exists") =>
            inv[i].pc \notin {"b_err", "a_err"}

\* The identity the before operation resolves for an input: its identity,
\* else its key id, else the objectId of its attribute bag
C23_Target(input) ==
    IF ~IsNullish(input.identity) THEN input.identity
    ELSE IF ~IsNullish(input.keyId) THEN input.keyId
    ELSE Get(input.attributes, "objectId")

\* The value the before operation reads for sponsors: the bag entry under
\* the short name, else under the prefixed name, else the change's value;
\* of a list its first element
C23_First(input) ==
    LET v == IF ~IsNullish(Get(input.attributes, "sponsors")) THEN input.attributes["sponsors"]
             ELSE IF ~IsNullish(Get(input.attributes, "attributes.sponsors"))
             THEN input.attributes["attributes.sponsors"]
             ELSE SponsorsChange(input).value
    IN  IF v.kind = "array" THEN (IF v.items = <<>> THEN Undef ELSE Str(v.items[1])) ELSE v

\* The step of preSetSponsors from r to r2, leaving the cache cache2, for a
\* command that is not a create and an input carrying a sponsors change.
\* guarded: only where an identity resolves, a key derives and a set carries
\* a value.
C23_Step(r, r2, cache2, guarded) ==
    LET input == r.input
        change == SponsorsChange(input)
        target == C23_Target(input)
        first == C23_First(input)
        key == cacheKey(r.context)
        calls == ~guarded \/ (Truthy(target) /\ (change.op = "Remove" \/ Truthy(first)))
        puts == ~guarded \/ (Truthy(target) /\ key # NoKey)
    IN  (/\ r.pc = "b_op" /\ OpName(r) = "preSetSponsors" /\ r2 # r
         /\ ~isCreateCommand(r.context)
         /\ change # NoChange) =>
            /\ calls =>
                  /\ r2.pc = "b_graph"
                  /\ r2.call.user = target.items[1]
                  /\ IF change.op = "Remove" THEN r2.call.kind = "clear"
                     ELSE r2.call.kind = "set" /\ Str(r2.call.upn) = first
            /\ puts =>
                  /\ key \in DOMAIN cache2
                  /\ cache2[key].userId = target
                  /\ cache2[key].identity = input.identity
                  /\ change.op # "Remove" => cache2[key].setUpn = first
                  /\ change.op = "Remove" => cache2[key].setUpn = Undef
            /\ (guarded /\ ~calls) => r2.pc # "b_graph"
            /\ (guarded /\ ~puts) => cache2 = inputCache

\* C23 as stated: for a command that is not a create and carries a sponsors
\* change, the before operation calls the downstream at once (clear for a
\* remove, set with the first value otherwise) and writes under the key a
\* handoff record with the resolved identity and, for a set, the value set.
C23_AsStated == [][\A i \in Invs : C23_Step(inv[i], inv'[i], inputCache', FALSE)]_vars

\* C23, amended: for such a command the before operation, when an identity
\* resolves from the input, calls the downstream at once (clear for a remove;
\* set with the first value for any other change that carries a value) and,
\* when a key also derives from the context, has written under it a handoff
\* record with that identity and, unless the change is a remove, the first
\* value; with no identity it neither calls nor writes.
C23_ImmediateApply == [][\A i \in Invs : C23_Step(inv[i], inv'[i], inputCache', TRUE)]_vars

C23_Witness ==
    \E i \in Invs :
        /\ inv[i].pc = "b_graph"
        /\ inv[i].cmd = "update"
        /\ SponsorsChange(inv[i].input).value = Arr(<<"c@x", "b@x">>)
        /\ SponsorsValue(inv[i].input) = Arr(<<"c@x", "b@x">>)
        /\ inv[i].call = [kind |-> "set", user |-> "u1", upn |-> "c@x"]
        /\ "k1" \in DOMAIN inputCache
        /\ inputCache["k1"].setUpn = Str("c@x")
        /\ inputCache["k1"].userId = Str("u1")

\* Whether attribute A is present in an input, whatever its value: in the
\* attribute bag under the short or the prefixed name, in primaryData, or
\* named by a change
PresentIn(input, A) ==
    \/ A \in DOMAIN input.attributes
    \/ (IF A = "sponsors" THEN "attributes.sponsors" ELSE A) \in DOMAIN input.attributes
    \/ A \in DOMAIN input.primaryData
    \/ \E n \in 1..Len(input.changes) :
          input.changes[n].attribute \in {A, IF A = "sponsors" THEN "attributes.sponsors" ELSE A}

\* C24: a before operation registered for attribute A runs exactly when A is
\* present in the input's attribute bag (short or prefixed name), primaryData
\* or change list; an attribute present with a null value counts as present.
C24_PresenceDecides ==
    (eng.runner = "before" /\ eng.pc = "ret") =>
        \A e \in 1..Len(eng.operations) :
            (/\ eng.operations[e].hookPattern \in {"*", eng.hookName}
             /\ eng.operations[e].attrPattern = "sponsors") =>
                (InvokedOnce(e, 1) <=> PresentIn(InputAt(e), "sponsors"))

\* Whether hook is pattern with every '*' replaced by some string: cut[j] is
\* the number of characters of hook the first j characters of pattern take
Expands(pattern, hook) ==
    \E cut \in [0..Len(pattern) -> 0..Len(hook)] :
        /\ cut[0] = 0
        /\ cut[Len(pattern)] = Len(hook)
        /\ \A j \in 1..Len(pattern) :
              IF pattern[j] = "*" THEN cut[j] >= cut[j - 1]
              ELSE cut[j] = cut[j - 1] + 1 /\ hook[cut[j]] = pattern[j]

\* C25 as stated: '*' matches every hook name, a pattern with no '*' matches
\* only the hook name identical to it, and a pattern with embedded '*'
\* matches exactly the hook names got by replacing each '*' with a string.
C25_AsStated ==
    fn.name = "matchesPattern" =>
        fn.result = Expands(fn.args.pattern, fn.args.hook)

\* C25, amended: the same for the patterns that hold, besides '*', no
\* character that is special in a regular expression.
C25_HookMatching ==
    (fn.name = "matchesPattern"
     /\ \A j \in 1..Len(fn.args.pattern) : fn.args.pattern[j] # "$") =>
        /\ fn.result = Expands(fn.args.pattern, fn.args.hook)
        /\ fn.args.pattern = <<"*">> => fn.result
        /\ (\A j \in 1..Len(fn.args.pattern) : fn.args.pattern[j] # "*") =>
              (fn.result <=> fn.args.hook = fn.args.pattern)

C25_Witness ==
    /\ fn.name = "matchesPattern"
    /\ fn.args.pattern = <<"a", "*">>
    /\ fn.args.hook = <<"a", "b", "$">>
    /\ fn.result

\* The entries of the run's registry written with the legacy key
\* 'attributes.sponsors', which the engine splits at the '.'
LegacyEntries ==
    {e \in 1..Len(eng.operations) :
        eng.operations[e].hookPattern = "attributes" /\ eng.operations[e].attrPattern = "sponsors"}

\* C26: in the engine of entraid-client.ts an entry keyed 'attributes.sponsors'
\* acts as one keyed 'sponsors': the before handler runs it whenever sponsors
\* is present in the running input, the after handler on every element that
\* has an attribute bag.
C26_LegacyKeyAccepted ==
    (eng.runner \in {"before", "after"} /\ eng.pc = "ret") =>
        \A e \in LegacyEntries :
            IF eng.runner = "before"
            THEN hasAttribute(InputAt(e), "sponsors") => InvokedAt(e, 1, 0)
            ELSE \A n \in HostRefs : HasBag(eng.heap[eng.result[n]]) => InvokedAt(e, 1, n)

\* The identifiers of a context in the order of the derivation, and the
\* first of them that is present (NoKey when none is).
Identifiers(context) == <<context.invocationId, context.requestId, context.id>>
FirstPresent(context) ==
    LET ids == Identifiers(context)
        present == {n \in 1..3 : ids[n] # NoKey}
    IN  IF present = {} THEN NoKey
        ELSE ids[CHOOSE n \in present : \A m \in present : n <= m]

\* The sponsor calls an invocation made from its after operation
AfterSponsorCalls(r) ==
    {n \in 1..Len(r.calls) : r.calls[n].phase = "after" /\ r.calls[n].kind \in {"set", "clear"}}

\* C27: the key of an invocation is the first present of the context's
\* invocation identifier, request identifier and id, in that order, and
\* absent only when none is present: a step of preSetSponsors that puts a
\* record puts it under that identifier, and a step of setSponsors takes the
\* record from under it.  A step of an invocation whose key is absent leaves
\* the cache as it is, puts no record, observes absent, and no error leaves
\* its operations but the error of a downstream call preSetSponsors made;
\* its setSponsors makes no call at all.
C27_Step ==
    \A i \in Invs :
        (inv'[i] # inv[i]) =>
            LET r == inv[i]
                r2 == inv'[i]
                key == FirstPresent(r2.context)
            IN  /\ (r2.put.found /\ ~r.put.found) =>
                      /\ key # NoKey
                      /\ key \in DOMAIN inputCache'
                      /\ inputCache'[key] = r2.put.rec
                /\ (Len(r2.obs) > Len(r.obs) /\ key # NoKey) =>
                      /\ r2.obs[Len(r2.obs)] = CacheGet(inputCache, key)
                      /\ key \notin DOMAIN inputCache'
                /\ key = NoKey =>
                      /\ inputCache' = inputCache
                      /\ ~r2.put.found
                      /\ \A n \in 1..Len(r2.obs) : r2.obs[n] = NotFound
                      /\ AfterSponsorCalls(r2) = {}
                      /\ r2.pc = "b_err" =>
                            /\ r.pc = "b_graph"
                            /\ r2.calls[Len(r2.calls)].outcome # "ok"
C27_KeyDerivation == [][C27_Step]_vars

\* An invocation without any identifier has run setSponsors next to the
\* record another put under its request identifier, its second identifier.
C27_Witness ==
    /\ Identifiers(inv["X"].context) = <<NoKey, NoKey, NoKey>>
    /\ Len(inv["X"].obs) = 1
    /\ inv["X"].pc = "a_ret"
    /\ inv["Y"].put.found
    /\ DOMAIN inputCache = {"k2"}
    /\ inputCache["k2"].by = "Y"

\* Invocation t of the run was the last on element n, and under an attribute key
LastWrite(t, n) ==
    /\ eng.trace[t].i = n
    /\ ~eng.trace[t].raised
    /\ \A u \in 1..Len(eng.trace) : eng.trace[u].i = n => u <= t
    /\ eng.operations[eng.trace[t].e].attrPattern # "null"

\* What the claim says of the elements of a finished run of the
\* attribute-map runner: the objects the host passed are as they were, and
\* an element written to under an attribute key is a copy that carries the
\* operation's value.
FellBackToCopy ==
    /\ \A n \in HostRefs : eng.heap[n] = eng.payload.items[n]
    /\ \A n \in HostRefs :
          \A t \in 1..Len(eng.trace) :
              LastWrite(t, n) =>
                  /\ eng.ret.refs[n] \notin HostRefs
                  /\ Get(BagOf(eng.heap[eng.ret.refs[n]]),
                         AttrName(eng.operations[eng.trace[t].e].attrPattern)) = eng.trace[t].out

C29_NeverMutates ==
    (fn.name = "setAttributeImmutable" /\ fn.args.object # 0) =>
        LET before == fn.args.heap
            after == fn.result.heap
            old == before[fn.args.object]
            new == after[fn.result.ref]
            attribute == fn.args.attribute
        IN  /\ Len(after) >= Len(before)
            /\ \A c \in 1..Len(before) : after[c] = before[c]
            /\ fn.result.ref \in (1..Len(after)) \ (1..Len(before))
            /\ IF IsPrefixed(attribute)
               THEN /\ "attributes" \in DOMAIN new
                    /\ new["attributes"].kind = "ref"
                    /\ new["attributes"].items[1] \in (1..Len(after)) \ (1..Len(before))
                    /\ LET bag == after[new["attributes"].items[1]]
                           oldBag == AttrsOf(before, fn.args.object)
                       IN  /\ KeyOf(attribute) \in DOMAIN bag
                           /\ bag[KeyOf(attribute)] = fn.args.value
                           /\ DOMAIN bag = DOMAIN oldBag \cup {KeyOf(attribute)}
                           /\ \A k \in DOMAIN oldBag \ {KeyOf(attribute)} : bag[k] = oldBag[k]
                    /\ DOMAIN new = DOMAIN old \cup {"attributes"}
                    /\ \A k \in DOMAIN old \ {"attributes"} : new[k] = old[k]
               ELSE /\ attribute[1] \in DOMAIN new
                    /\ new[attribute[1]] = fn.args.value
                    /\ DOMAIN new = DOMAIN old \cup {attribute[1]}
                    /\ \A k \in DOMAIN old \ {attribute[1]} : new[k] = old[k]

C29_Witness ==
    /\ fn.name = "setAttributeImmutable"
    /\ fn.args.object = 1
    /\ fn.args.attribute = <<"attributes", "sponsors">>
    /\ fn.args.value = Str("v")
    /\ Len(fn.args.heap) = 2
    /\ Get(fn.args.heap[2], "sponsors") = Str("old")
    /\ Get(fn.result.heap[2], "sponsors") = Str("old")
    /\ fn.result.ref = 4
    /\ fn.result.heap[3]["sponsors"] = Str("v")
    /\ fn.result.heap[3]["objectId"] = Str("u1")

\* C30: within one handler call of the engine the operations run one after
\* the other: at most one operation invocation is in flight, and a step in
\* which an invocation starts is the start of the call's first invocation
\* or the step in which the invocation that was in flight returned.
C30_Step ==
    /\ Cardinality(eng'.inflight) <= 1
    /\ (eng'.inflight \ eng.inflight # {}) =>
          \/ eng.inflight = {} /\ eng.trace = <<>>
          \/ /\ eng.inflight \cap eng'.inflight = {}
             /\ Len(eng'.trace) = Len(eng.trace) + 1
             /\ LET done == eng'.trace[Len(eng'.trace)]
                IN  eng.inflight = {[e |-> done.e, o |-> done.o, i |-> done.i]}
    /\ (eng.runner \in {"before", "after"} /\ eng.pc \in {"op", "fetch"}) =>
          eng.inflight = {Flight(eng)}
C30_Sequential == [][C30_Step]_vars

\* The second operation of an entry is in flight on the second element of a
\* list, after both operations ran on the first and the first on the second.
C30_Witness ==
    /\ eng.runner = "after"
    /\ eng.pc = "op"
    /\ Len(eng.result) = 2
    /\ eng.inflight = {[e |-> 1, o |-> 2, i |-> 2]}
    /\ Len(eng.trace) = 3
    /\ \E t \in 1..3 : eng.trace[t].i = 1 /\ eng.trace[t].o = 2

\* The address-list patch calls an invocation has made
GalCalls(r) == {n \in 1..Len(r.calls) : r.calls[n].kind = "gal"}

\* C31: setGuestGalVisibility issues the address-list patch call only for an
\* element whose user id resolves and whose userType is Guest; when the call
\* fails (as when it succeeds) the operation does not raise and returns
\* undefined: the handler goes on to its next operation or returns, and the
\* output element is as it was.
C31_Step ==
    \A i \in Invs :
        LET r == inv[i]
            r2 == inv'[i]
        IN  /\ r2.pc = "a_gal" =>
                  LET item == r2.output.items[r2.it]
                  IN  /\ Truthy(resolveUserIdFromOutput(item))
                      /\ item.hasAttrs /\ item.guest
                      /\ r2.call.kind = "gal"
                      /\ r2.call.user = resolveUserIdFromOutput(item).items[1]
            /\ GalCalls(r2) # GalCalls(r) => r.pc = "a_gal"
            /\ (r.pc = "a_gal" /\ r2 # r) =>
                  /\ r2.pc \in {"a_op", "a_ret"}
                  /\ r2.output = r.output
                  /\ Len(r2.calls) = Len(r.calls) + 1
                  /\ r2.calls[Len(r2.calls)].kind = "gal"
                  /\ sponsors' = sponsors
                  /\ inputCache' = inputCache
C31_GalSwallows == [][C31_Step]_vars

\* The after handler returned after a patch call of the operation failed.
C31_Witness ==
    /\ inv["X"].pc = "a_ret"
    /\ inv["X"].cmd = "create"
    /\ \E n \in GalCalls(inv["X"]) : inv["X"].calls[n].outcome = "error"
    /\ inv["X"].output.items[1].guest

\* C32: when the request for the sponsors fails during getSponsors, the
\* operation returns undefined and does not raise: the after handler of the
\* engine leaves the element as it is and goes on to its next operation or
\* returns the output.
C32_Step ==
    (eng.pc = "fetch" /\ eng' # eng /\ eng'.trace[Len(eng'.trace)].failed) =>
        LET done == eng'.trace[Len(eng'.trace)]
        IN  /\ Len(eng'.trace) = Len(eng.trace) + 1
            /\ done.op = "getSponsors"
            /\ done.out = Undef
            /\ ~done.raised
            /\ eng'.pc \in {"op", "ret"}
            /\ eng.runner = "after" =>
                  /\ eng'.heap = eng.heap
                  /\ eng'.result = eng.result
                  /\ ElementLeft = eng.currentItem
            /\ eng'.pc = "ret" => eng'.ret = Return(eng')
C32_FetchFailureRecovered == [][C32_Step]_vars

\* The after handler returned the host's output after the request for the
\* sponsors of its element failed.
C32_Witness ==
    /\ eng.runner = "after"
    /\ eng.pc = "ret"
    /\ Len(eng.trace) = 1
    /\ eng.trace[1].op = "getSponsors"
    /\ eng.trace[1].failed
    /\ eng.trace[1].out = Undef
    /\ eng.ret = [list |-> FALSE, refs |-> <<1>>]
    /\ eng.heap[1] = eng.payload.items[1]

\* The downstream set or clear calls an invocation made that completed
AppliedCalls(r) ==
    {n \in 1..Len(r.calls) : r.calls[n].kind \in {"set", "clear"} /\ r.calls[n].outcome = "ok"}

\* The cache holds a pending sponsor change under the invocation's key
HeldPending(r) ==
    /\ cacheKey(r.context) # NoKey
    /\ cacheKey(r.context) \in DOMAIN inputCache
    /\ inputCache[cacheKey(r.context)].pendingSponsor.present

\* C33: whenever the before handler returns an input from which preSetSponsors
\* stripped a sponsors value or change, that change has been applied by a
\* downstream set or clear call, or is held as a pending change in the cache
\* under the invocation's key.
C33_NoSilentLoss ==
    \A i \in Invs :
        (inv[i].pc = "b_ret" /\ inv[i].input # inv[i].orig) =>
            \/ AppliedCalls(inv[i]) # {}
            \/ HeldPending(inv[i])

\* The downstream set or clear calls an invocation has issued: the ones
\* that completed or failed, and the one it awaits
IssuedBefore(r) ==
    Cardinality({n \in 1..Len(r.calls) :
                    r.calls[n].kind \in {"set", "clear"} /\ r.calls[n].phase = "before"})
    + (IF r.pc = "b_graph" THEN 1 ELSE 0)
IssuedAfter(r) ==
    Cardinality({n \in 1..Len(r.calls) :
                    r.calls[n].kind \in {"set", "clear"} /\ r.calls[n].phase = "after"})
    + (IF r.pc = "a_graph" THEN 1 ELSE 0)

\* C34: over the before phase and the after phase of one invocation, also
\* when the after handler runs setSponsors on several elements of a list, the
\* downstream set or clear for the sponsor change is issued in the before
\* phase or in the after phase, never in both and never twice.
C34_AtMostOnce ==
    \A i \in Invs : IssuedBefore(inv[i]) + IssuedAfter(inv[i]) <= 1

\* A create whose after handler ran setSponsors on both elements of a list:
\* the first took the pending change and applied it, the second found none.
C34_Witness ==
    /\ inv["X"].pc = "a_ret"
    /\ inv["X"].cmd = "create"
    /\ Len(inv["X"].output.items) = 2
    /\ Len(inv["X"].obs) = 2
    /\ inv["X"].obs[1].found /\ inv["X"].obs[1].rec.pendingSponsor.present
    /\ ~inv["X"].obs[2].found
    /\ IssuedBefore(inv["X"]) = 0
    /\ IssuedAfter(inv["X"]) = 1

\* C35: setSponsors takes the record out of the cache on every run with a
\* derivable key, before it resolves the identity: when it returns early
\* because neither the output nor the record gives a user id, the record (and
\* a pending change in it) is gone from the cache and no downstream call was
\* made.
C35_Step ==
    \A i \in Invs :
        LET r == inv[i]
            r2 == inv'[i]
            key == cacheKey(r.context)
        IN  (r.pc = "a_op" /\ Len(r2.obs) = Len(r.obs) + 1) =>
                LET item == r.output.items[r.it]
                    got == r2.obs[Len(r2.obs)]
                IN  /\ key # NoKey =>
                          /\ got = CacheGet(inputCache, key)
                          /\ key \notin DOMAIN inputCache'
                    /\ (~Truthy(item.identity) /\ ~Truthy(got.rec.userId)) =>
                          /\ r2.pc \in {"a_op", "a_ret"}
                          /\ r2.calls = r.calls
                          /\ sponsors' = sponsors
C35_ConsumedBeforeResolving == [][C35_Step]_vars

\* setSponsors took a record with a pending change, found no user id and
\* returned: the change is neither applied nor in the cache.
C35_Witness ==
    /\ inv["X"].pc = "a_ret"
    /\ cacheKey(inv["X"].context) = "k1"
    /\ Len(inv["X"].obs) = 1
    /\ inv["X"].obs[1].found
    /\ inv["X"].obs[1].rec.pendingSponsor.present
    /\ ~Truthy(inv["X"].obs[1].rec.userId)
    /\ ~Truthy(inv["X"].output.items[1].identity)
    /\ inv["X"].calls = <<>>
    /\ "k1" \notin DOMAIN inputCache

\* The downstream call of preSetSponsors an invocation awaits, or the one
\* that failed
BeforeCallAt(r) == IF r.pc = "b_graph" THEN r.call ELSE r.calls[Len(r.calls)]

\* C36: in the non-create branch of preSetSponsors the hand-off record is in
\* the cache under the invocation's key while the downstream set or clear
\* call is awaited, and it is still there when the call failed and the error
\* left the handler: a record for the user of the call, with the sponsor of a
\* set as its setUpn, also when that sponsor was never set.
C36_RecordOutlivesFailure ==
    \A i \in Invs :
        LET r == inv[i]
            key == cacheKey(r.context)
        IN  (r.pc \in {"b_graph", "b_err"} /\ key # NoKey) =>
                /\ key \in DOMAIN inputCache
                /\ r.put.found
                /\ inputCache[key] = r.put.rec
                /\ inputCache[key].by = i
                /\ inputCache[key].userId = Str(BeforeCallAt(r).user)
                /\ ~inputCache[key].pendingSponsor.present
                /\ inputCache[key].setUpn =
                      (IF BeforeCallAt(r).kind = "set" THEN Str(BeforeCallAt(r).upn) ELSE Undef)

\* The set of b@x for u1 failed and the error left the before handler: u1
\* has no sponsor b@x and the cache holds the record with setUpn b@x.
C36_Witness ==
    /\ inv["X"].pc = "b_err"
    /\ cacheKey(inv["X"].context) = "k1"
    /\ inv["X"].calls[1].kind = "set"
    /\ inv["X"].calls[1].user = "u1"
    /\ inv["X"].calls[1].upn = "b@x"
    /\ inv["X"].calls[1].outcome = "error"
    /\ "b@x" \notin sponsors["u1"]
    /\ "k1" \in DOMAIN inputCache
    /\ inputCache["k1"].setUpn = Str("b@x")

\* The entries of the run that match the hook and have a specific attribute
\* pattern, which the original input holds but the running input at the
\* entry does not: an earlier operation stripped it
StrippedBefore ==
    {e \in 1..Len(eng.operations) :
        /\ eng.operations[e].hookPattern \in {"*", eng.hookName}
        /\ eng.operations[e].attrPattern \notin {"*", "null"}
        /\ hasAttribute(eng.payload, eng.operations[e].attrPattern)
        /\ ~hasAttribute(InputAt(e), eng.operations[e].attrPattern)}

\* C37: the before handler of the engine tests a specific-attribute entry
\* against the running input: when an operation of an earlier entry stripped
\* the attribute from the input, the operations of a later entry for that
\* attribute on the same hook are not invoked.
C37_RunningInputDecides ==
    eng.runner = "before" =>
        \A e \in StrippedBefore :
            \A o \in 1..Len(eng.operations[e].ops) : ~InvokedOnce(e, o)

\* The operation under the hook's key for sponsors stripped it, and the
\* entry under '*.attributes.sponsors' after it was passed over.
C37_Witness ==
    /\ eng.runner = "before"
    /\ eng.pc = "ret"
    /\ Len(eng.operations) = 2
    /\ eng.operations[1].attrPattern = "sponsors"
    /\ eng.operations[1].ops = <<"strip">>
    /\ eng.operations[2].attrPattern = "attributes.sponsors"
    /\ eng.operations[2].ops = <<"tag">>
    /\ Get(eng.payload.attributes, "sponsors") = Str("b@x")
    /\ StrippedBefore = {2}
    /\ Len(eng.trace) = 1
    /\ eng.input.identity = Str("u1")

\* An object of a heap by value: its fields, with its attribute bag in
\* place of the reference to it
Deref(heap, ref) ==
    [k \in DOMAIN heap[ref] |->
        IF heap[ref][k].kind = "ref" THEN Obj(heap[heap[ref][k].items[1]]) ELSE heap[ref][k]]

\* C38: for every object o that can be written to, path p and value v,
\* setAttribute(o, p, v) succeeds and leaves o equal to the object
\* setAttributeImmutable returns for the original o, p and v; for a prefixed
\* path what follows the first 'attributes.' is one key of the bag, whatever
\* '.'s it holds.
C38_SettersAgree ==
    (fn.name = "setAttribute" /\ fn.args.object # 0) =>
        LET imm == setAttributeImmutableAt(fn.args.heap, fn.args.object, fn.args.attribute,
                                           fn.args.value)
            left == Deref(fn.result.heap, fn.args.object)
        IN  /\ fn.result.ok
            /\ left = Deref(imm.heap, imm.ref)
            /\ IsPrefixed(fn.args.attribute) =>
                  /\ "attributes" \in DOMAIN left
                  /\ left["attributes"].kind = "object"
                  /\ KeyOf(fn.args.attribute) \in DOMAIN left["attributes"].fields
                  /\ left["attributes"].fields[KeyOf(fn.args.attribute)] = fn.args.value

\* setAttribute wrote the nested key 'attributes.sponsors' into the bag of an
\* object that had sponsors in it.
C38_Witness ==
    /\ fn.name = "setAttribute"
    /\ fn.args.object = 1
    /\ fn.args.attribute = <<"attributes", "attributes", "sponsors">>
    /\ fn.args.value = Str("v")
    /\ Len(fn.args.heap) = 2
    /\ Get(fn.args.heap[2], "sponsors") = Str("old")
    /\ fn.result.ok
    /\ Get(fn.result.heap[2], "sponsors") = Str("old")
    /\ Get(fn.result.heap[2], "attributes.sponsors") = Str("v")

====
